---- MODULE Spec2Model ----
(***************************************************************************)
(* Model of the evm-wallet-django backend: the balance ledger shared by    *)
(* TokenBalance, SquadTokenBalance and SquadMemberBalance                   *)
(* (wallet/models.py, squad/models.py) and the Telegram authentication     *)
(* flow (authentication/models.py, authentication/views.py), with the      *)
(* wallet address registration, the new-user buffer, squad membership      *)
(* (squad/models.py) and chat creation (squad/views.py).                   *)
(*                                                                         *)
(* Decimal amounts (DecimalField, 18 decimal places) are modelled as       *)
(* integer counts of the smallest unit 10^-18; Decimal addition,           *)
(* subtraction and comparison are exact, as integer arithmetic is.          *)
(***************************************************************************)
EXTENDS Integers, Sequences, FiniteSets, TLC

\* ---------------------------------------------------------------- bounds
\* largest balance a record is driven to
MaxBalance == 3
\* largest amount passed to a ledger method (the smallest is -1)
MaxAmount == 3
\* largest drop bound a SquadTokenBalance is configured with
MaxDrop == 2

\* largest max_members a squad is created with
MaxMembers == 2
\* number of chat ids the create requests name
MaxChats == 2

\* number of requests that withdraw from one record at the same time
NumRequests == 2
\* number of user rows the registry is driven to
MaxUsers == 2
\* largest Telegram id a request names (0 stands for an absent id)
MaxTelegramId == 2
\* largest auth_date a payload carries, in seconds
MaxAuthDate == 1
\* resolution of time.time(): clock ticks per second
TicksPerSecond == 2
\* largest number of users one user is made the referrer of
MaxReferred == 17

\* ------------------------------------------------------ program constants
\* seconds a login payload stays valid
AuthMaxAge == 86400
\* the hexadecimal digits of an address, after 0x
AddressHexDigits == 40
\* handle-less referrals above which detect_bot flags a new user
BotThreshold == 15

Amounts == (-1)..MaxAmount
Requests == 1..NumRequests
Classes == {"TokenBalance", "SquadTokenBalance", "SquadMemberBalance"}

None == "None"

VARIABLES
    cls,      \* the model class of the balance record under test
    rec,      \* the stored balance record (its database row)
    last,     \* the last ledger call: method, amount, outcome, record before
    prev,     \* the ledger call before the last one
    row,      \* concurrent withdrawals: the shared database row
    row0,     \* concurrent withdrawals: the row before any request ran
    inst,     \* concurrent withdrawals: each request's in-memory instance
    pc,       \* concurrent withdrawals: each request's position
    amt,      \* concurrent withdrawals: each request's amount
    res,      \* concurrent withdrawals: each request's outcome
    trio,     \* one record of each class, driven by the same calls
    trioRes,  \* the outcomes of the last call on each of the three
    users,    \* the user table, in primary-key order
    now,      \* time.time(), in clock ticks
    bearer,   \* primary keys of the users a token has been issued for
    cache,    \* the 'new_users' cache entry
    lastReq,  \* the last request handled: view, answer, what it had passed
    tier,     \* the tier check the last step made (<<>> when it made none)
    reg,      \* the registration the last step made (<<>> when it made none)
    bind,     \* the address binding the last step made (<<>> when it made none)
    job,      \* concurrent registrations: each call's position and locals
    evm_chains, \* the EVMChain table
    feed,     \* the new-user buffer: the last login or drain, users not yet drained
    poll,     \* concurrent logins and drains: each request's position and locals
    squad,    \* a squad and the last membership call made on it
    chat      \* the Chat and ChatActivity tables and the last create request

ledgerVars == <<cls, rec, last, prev>>
concVars == <<row, row0, inst, pc, amt, res>>
equivVars == <<trio, trioRes>>
authVars == <<users, now, bearer, cache, lastReq>>
registryVars == <<tier, reg, bind, job>>
appVars == <<evm_chains, feed, poll, squad, chat>>
vars == <<cls, rec, last, prev, row, row0, inst, pc, amt, res, trio, trioRes,
          users, now, bearer, cache, lastReq, tier, reg, bind, job,
          evm_chains, feed, poll, squad, chat>>

\* ------------------------------------------------ wallet/models.py, ledger
\* a method's outcome: the instance afterwards, whether save() ran, and the
\* ValidationError raised ("ok" when none)
Raise(self, msg) == [rec |-> self, saved |-> FALSE, result |-> msg]
Saved(self) == [rec |-> self, saved |-> TRUE, result |-> "ok"]

TokenBalance_get_available_balance(self) == self.balance - self.frozen_balance

TokenBalance_deposit(self, amount) ==
    IF amount <= 0 THEN Raise(self, "Deposit amount must be positive")
    ELSE Saved([self EXCEPT !.balance = @ + amount])

\* withdraw that checks the amount against balance, not against available
TokenBalance_withdraw_raw_balance(self, amount) ==
    IF amount <= 0 THEN Raise(self, "Withdraw amount must be positive")
    ELSE IF amount > self.balance THEN Raise(self, "Insufficient balance")
    ELSE Saved([self EXCEPT !.balance = @ - amount])

\* withdraw that refuses an amount equal to available
TokenBalance_withdraw_strict(self, amount) ==
    IF amount <= 0 THEN Raise(self, "Withdraw amount must be positive")
    ELSE IF amount >= TokenBalance_get_available_balance(self)
         THEN Raise(self, "Insufficient balance")
    ELSE Saved([self EXCEPT !.balance = @ - amount])

TokenBalance_withdraw(self, amount) ==
    IF amount <= 0 THEN Raise(self, "Withdraw amount must be positive")
    ELSE IF amount > TokenBalance_get_available_balance(self)
         THEN Raise(self, "Insufficient balance")
    ELSE Saved([self EXCEPT !.balance = @ - amount])

\* freeze that checks the amount against balance, not against available
TokenBalance_freeze_raw_balance(self, amount) ==
    IF amount <= 0 THEN Raise(self, "Freeze amount must be positive")
    ELSE IF amount > self.balance
         THEN Raise(self, "Insufficient available balance")
    ELSE Saved([self EXCEPT !.frozen_balance = @ + amount])

TokenBalance_freeze(self, amount) ==
    IF amount <= 0 THEN Raise(self, "Freeze amount must be positive")
    ELSE IF amount > TokenBalance_get_available_balance(self)
         THEN Raise(self, "Insufficient available balance")
    ELSE Saved([self EXCEPT !.frozen_balance = @ + amount])

\* unfreeze that checks the amount against balance, not against frozen_balance
TokenBalance_unfreeze_raw_balance(self, amount) ==
    IF amount <= 0 THEN Raise(self, "Unfreeze amount must be positive")
    ELSE IF amount > self.balance
         THEN Raise(self, "Insufficient frozen balance")
    ELSE Saved([self EXCEPT !.frozen_balance = @ - amount])

TokenBalance_unfreeze(self, amount) ==
    IF amount <= 0 THEN Raise(self, "Unfreeze amount must be positive")
    ELSE IF amount > self.frozen_balance
         THEN Raise(self, "Insufficient frozen balance")
    ELSE Saved([self EXCEPT !.frozen_balance = @ - amount])

\* ------------------------------------------------- squad/models.py, ledger
SquadTokenBalance_get_available_balance(self) ==
    self.balance - self.frozen_balance

SquadTokenBalance_deposit(self, amount) ==
    IF amount <= 0 THEN Raise(self, "Deposit amount must be positive")
    ELSE Saved([self EXCEPT !.balance = @ + amount])

SquadTokenBalance_withdraw(self, amount) ==
    IF amount <= 0 THEN Raise(self, "Withdraw amount must be positive")
    ELSE IF amount > SquadTokenBalance_get_available_balance(self)
         THEN Raise(self, "Insufficient balance")
    ELSE Saved([self EXCEPT !.balance = @ - amount])

\* can_drop that compares the amount with balance, not with available
SquadTokenBalance_can_drop_raw_balance(self, amount) ==
    IF ~self.drop_enabled THEN [rec |-> self, saved |-> FALSE, result |-> FALSE]
    ELSE IF amount < self.min_drop_amount \/ amount > self.max_drop_amount
         THEN [rec |-> self, saved |-> FALSE, result |-> FALSE]
    ELSE IF amount > self.balance
         THEN [rec |-> self, saved |-> FALSE, result |-> FALSE]
    ELSE [rec |-> self, saved |-> FALSE, result |-> TRUE]

\* can_drop returns a boolean and assigns nothing
SquadTokenBalance_can_drop(self, amount) ==
    IF ~self.drop_enabled THEN [rec |-> self, saved |-> FALSE, result |-> FALSE]
    ELSE IF amount < self.min_drop_amount \/ amount > self.max_drop_amount
         THEN [rec |-> self, saved |-> FALSE, result |-> FALSE]
    ELSE IF amount > SquadTokenBalance_get_available_balance(self)
         THEN [rec |-> self, saved |-> FALSE, result |-> FALSE]
    ELSE [rec |-> self, saved |-> FALSE, result |-> TRUE]

\* deposit that accepts an amount of zero
SquadMemberBalance_deposit_zero(self, amount) ==
    IF amount < 0 THEN Raise(self, "Deposit amount must be positive")
    ELSE Saved([self EXCEPT !.balance = @ + amount])

SquadMemberBalance_deposit(self, amount) ==
    IF amount <= 0 THEN Raise(self, "Deposit amount must be positive")
    ELSE Saved([self EXCEPT !.balance = @ + amount])

\* withdraw that refuses an amount equal to the balance
SquadMemberBalance_withdraw_strict(self, amount) ==
    IF amount <= 0 THEN Raise(self, "Withdraw amount must be positive")
    ELSE IF amount >= self.balance THEN Raise(self, "Insufficient balance")
    ELSE Saved([self EXCEPT !.balance = @ - amount])

SquadMemberBalance_withdraw(self, amount) ==
    IF amount <= 0 THEN Raise(self, "Withdraw amount must be positive")
    ELSE IF amount > self.balance THEN Raise(self, "Insufficient balance")
    ELSE Saved([self EXCEPT !.balance = @ - amount])

\* the records as their field defaults create them
NewTokenBalance == [balance |-> 0, frozen_balance |-> 0]
NewSquadTokenBalance(lo, hi, en) ==
    [balance |-> 0, frozen_balance |-> 0, min_drop_amount |-> lo,
     max_drop_amount |-> hi, drop_enabled |-> en]
NewSquadMemberBalance == [balance |-> 0]

NoCall == [method |-> None, amount |-> 0, result |-> None, pre |-> None]

\* ------------------------------------------- one ledger call at a time
\* the row after a call: what save() wrote, or the row as it was
Stored(old, out) == IF out.saved THEN out.rec ELSE old

Call(method, amount, out) ==
    /\ out.rec.balance <= MaxBalance
    /\ rec' = Stored(rec, out)
    /\ prev' = last
    /\ last' = [method |-> method, amount |-> amount, result |-> out.result,
                pre |-> rec]
    /\ UNCHANGED <<cls, concVars, equivVars, authVars, registryVars, appVars>>

Deposit ==
    \E a \in Amounts :
        \/ cls = "TokenBalance" /\ Call("deposit", a, TokenBalance_deposit(rec, a))
        \/ cls = "SquadTokenBalance"
             /\ Call("deposit", a, SquadTokenBalance_deposit(rec, a))
        \/ cls = "SquadMemberBalance"
             /\ Call("deposit", a, SquadMemberBalance_deposit(rec, a))

Withdraw ==
    \E a \in Amounts :
        \/ cls = "TokenBalance" /\ Call("withdraw", a, TokenBalance_withdraw(rec, a))
        \/ cls = "SquadTokenBalance"
             /\ Call("withdraw", a, SquadTokenBalance_withdraw(rec, a))
        \/ cls = "SquadMemberBalance"
             /\ Call("withdraw", a, SquadMemberBalance_withdraw(rec, a))

Freeze ==
    \E a \in Amounts :
        cls = "TokenBalance" /\ Call("freeze", a, TokenBalance_freeze(rec, a))

Unfreeze ==
    \E a \in Amounts :
        cls = "TokenBalance" /\ Call("unfreeze", a, TokenBalance_unfreeze(rec, a))

CanDrop ==
    \E a \in Amounts :
        cls = "SquadTokenBalance"
          /\ Call("can_drop", a, SquadTokenBalance_can_drop(rec, a))

\* the drop settings a squad's record is configured with
DropSettings ==
    {NewSquadTokenBalance(lo, hi, en) :
        lo \in 0..1, hi \in 1..MaxDrop, en \in BOOLEAN}

\* a fresh record of class c
NewRecords(c) ==
    CASE c = "TokenBalance" -> {NewTokenBalance}
      [] c = "SquadTokenBalance" -> DropSettings
      [] OTHER -> {NewSquadMemberBalance}

LedgerInit ==
    /\ cls \in Classes
    /\ rec \in NewRecords(cls)
    /\ last = NoCall
    /\ prev = NoCall

\* every record of class c that calls made one at a time lead to
Records(c) ==
    CASE c = "TokenBalance" ->
           {r \in [balance : 0..MaxBalance, frozen_balance : 0..MaxBalance] :
               r.frozen_balance <= r.balance}
      [] c = "SquadTokenBalance" ->
           {[d EXCEPT !.balance = b] : d \in DropSettings, b \in 0..MaxBalance}
      [] OTHER -> {[balance |-> b] : b \in 0..MaxBalance}

IdleLedger ==
    /\ cls = "TokenBalance"
    /\ rec = NewTokenBalance
    /\ last = NoCall
    /\ prev = NoCall

IdleConc ==
    /\ row = NewTokenBalance
    /\ row0 = NewTokenBalance
    /\ inst = <<>>
    /\ pc = <<>>
    /\ amt = <<>>
    /\ res = <<>>

IdleEquiv ==
    /\ trio = <<>>
    /\ trioRes = <<>>

\* no user, no token, no request yet
IdleAuth ==
    /\ users = <<>>
    /\ now = AuthMaxAge * TicksPerSecond - 1
    /\ bearer = {}
    /\ cache = <<>>
    /\ lastReq = [view |-> None, status |-> 0, message |-> None, token |-> 0,
                  own |-> FALSE, hashOk |-> FALSE, age |-> 0, callerFull |-> FALSE]

\* no tier check, registration or address binding yet
IdleRegistry ==
    /\ tier = <<>>
    /\ reg = <<>>
    /\ bind = <<>>
    /\ job = <<>>

\* the buffer's history before any login or drain
NoFeed ==
    [op |-> None, status |-> 0, pre |-> <<>>, returned |-> <<>>, due |-> <<>>,
     pending |-> <<>>, again |-> FALSE]

\* no chain, no concurrent poller, no squad, no chat
IdleApp ==
    /\ evm_chains = {}
    /\ feed = NoFeed
    /\ poll = <<>>
    /\ squad = <<>>
    /\ chat = <<>>

Init == LedgerInit /\ IdleConc /\ IdleEquiv /\ IdleAuth /\ IdleRegistry /\ IdleApp

Next == Deposit \/ Withdraw \/ Freeze \/ Unfreeze \/ CanDrop

Spec == Init /\ [][Next]_vars

\* ----------------------------------- can_drop as a function of the record
\* a SquadTokenBalance row with any field values the columns can hold
DropInit ==
    /\ cls = "SquadTokenBalance"
    /\ rec \in {[d EXCEPT !.balance = b, !.frozen_balance = f] :
                  d \in DropSettings, b \in 0..MaxBalance, f \in 0..MaxBalance}
    /\ rec.frozen_balance <= rec.balance
    /\ last = NoCall
    /\ prev = NoCall

InitDrop ==
    DropInit /\ IdleConc /\ IdleEquiv /\ IdleAuth /\ IdleRegistry /\ IdleApp

NextDrop == CanDrop

SpecDrop == InitDrop /\ [][NextDrop]_vars

\* ------------------------------------ withdrawals running at the same time
\* withdraw of the record's class, on an instance held in memory
WithdrawOf(c, self, amount) ==
    CASE c = "TokenBalance" -> TokenBalance_withdraw(self, amount)
      [] c = "SquadTokenBalance" -> SquadTokenBalance_withdraw(self, amount)
      [] OTHER -> SquadMemberBalance_withdraw(self, amount)

\* the caller fetches the record: the instance is a copy of the row
ReqLoad(p) ==
    /\ pc[p] = "start"
    /\ \E a \in Amounts : amt' = [amt EXCEPT ![p] = a]
    /\ inst' = [inst EXCEPT ![p] = row]
    /\ pc' = [pc EXCEPT ![p] = "loaded"]
    /\ UNCHANGED <<ledgerVars, row, row0, res, equivVars, authVars, registryVars, appVars>>

\* withdraw up to save(): the checks and the subtraction, on the instance
ReqCheck(p) ==
    /\ pc[p] = "loaded"
    /\ LET out == WithdrawOf(cls, inst[p], amt[p]) IN
         /\ inst' = [inst EXCEPT ![p] = out.rec]
         /\ res' = [res EXCEPT ![p] = out.result]
         /\ pc' = [pc EXCEPT ![p] = IF out.saved THEN "saving" ELSE "done"]
    /\ UNCHANGED <<ledgerVars, row, row0, amt, equivVars, authVars, registryVars, appVars>>

\* save(): an UPDATE that writes every field of the instance
ReqSave(p) ==
    /\ pc[p] = "saving"
    /\ row' = inst[p]
    /\ pc' = [pc EXCEPT ![p] = "done"]
    /\ UNCHANGED <<ledgerVars, row0, inst, amt, res, equivVars, authVars, registryVars, appVars>>

ConcInit ==
    /\ cls \in Classes
    /\ row \in Records(cls)
    /\ rec = row
    /\ last = NoCall
    /\ prev = NoCall
    /\ row0 = row
    /\ inst = [p \in Requests |-> row]
    /\ pc = [p \in Requests |-> "start"]
    /\ amt = [p \in Requests |-> 0]
    /\ res = [p \in Requests |-> None]

InitConc == ConcInit /\ IdleEquiv /\ IdleAuth /\ IdleRegistry /\ IdleApp

NextConc == \E p \in Requests : ReqLoad(p) \/ ReqCheck(p) \/ ReqSave(p)

SpecConc == InitConc /\ [][NextConc]_vars

\* ------------------------------- the three classes driven by the same calls
EquivCall(method, amount, t, s, m) ==
    /\ t.rec.balance <= MaxBalance
    /\ trio' = [tb |-> Stored(trio.tb, t), stb |-> Stored(trio.stb, s),
                smb |-> Stored(trio.smb, m)]
    /\ trioRes' = [method |-> method, amount |-> amount, pre |-> trio.tb.balance,
                   tb |-> t.result, stb |-> s.result, smb |-> m.result]
    /\ UNCHANGED <<ledgerVars, concVars, authVars, registryVars, appVars>>

EquivDeposit ==
    \E a \in Amounts :
        EquivCall("deposit", a, TokenBalance_deposit(trio.tb, a),
                  SquadTokenBalance_deposit(trio.stb, a),
                  SquadMemberBalance_deposit(trio.smb, a))

EquivWithdraw ==
    \E a \in Amounts :
        EquivCall("withdraw", a, TokenBalance_withdraw(trio.tb, a),
                  SquadTokenBalance_withdraw(trio.stb, a),
                  SquadMemberBalance_withdraw(trio.smb, a))

EquivInit ==
    /\ trio \in {[tb |-> NewTokenBalance, stb |-> d, smb |-> NewSquadMemberBalance] :
                   d \in DropSettings}
    /\ trioRes = [method |-> None, amount |-> 0, pre |-> 0,
                  tb |-> None, stb |-> None, smb |-> None]

InitEquiv ==
    IdleLedger /\ IdleConc /\ EquivInit /\ IdleAuth /\ IdleRegistry /\ IdleApp

NextEquiv == EquivDeposit \/ EquivWithdraw

SpecEquiv == InitEquiv /\ [][NextEquiv]_vars

\* =================================== authentication/models.py, the registry
\* a user row; referred_by holds the referrer's primary key, 0 when null;
\* last_login holds the clock reading it was set at, 0 when null.
\* The primary key of a user is its index in users.
DefaultUser ==
    [telegram_id |-> 0, username_tg |-> None, first_name |-> None,
     last_name |-> None, referred_by |-> 0, is_bot_suspected |-> FALSE,
     is_active |-> TRUE, is_staff |-> FALSE, is_superuser |-> FALSE,
     full_permissions_api |-> FALSE, has_beta_access |-> FALSE,
     has_alpha_access |-> FALSE, last_login |-> 0,
     ethereum_address |-> None, base_address |-> None]

Pks(us) == 1..Len(us)

Min(S) == CHOOSE x \in S : \A y \in S : x <= y

\* str.lower() on the handles and chain names the model uses
Lower(s) ==
    CASE s = "Bob" -> "bob"
      [] s = "Ethereum" -> "ethereum"
      [] s = "BASE" -> "base"
      [] s = "Base" -> "base"
      [] s = "Polygon" -> "polygon"
      [] OTHER -> s

\* the fields of base, overridden by those of extra
Merge(base, extra) ==
    [f \in DOMAIN base |-> IF f \in DOMAIN extra THEN extra[f] ELSE base[f]]

NoExtra == [is_staff |-> FALSE]

CreateFailed(us, msg) ==
    [users |-> us, user |-> 0, created |-> FALSE,
     referred_by_telegram_id |-> 0, error |-> msg]

\* create_user that writes the handle of an existing user as it was given
UserManager_create_user_raw_update(us, telegram_id, username_tg, first_name, last_name, referred_by_id, extra_fields) ==
    IF telegram_id = 0 THEN CreateFailed(us, "The Telegram ID must be set")
    ELSE
    LET referred_by == IF referred_by_id # 0 /\ referred_by_id \in Pks(us)
                       THEN referred_by_id ELSE 0
        handle == IF username_tg # None THEN Lower(username_tg) ELSE username_tg
        holders == {i \in Pks(us) : /\ us[i].username_tg = handle
                                    /\ us[i].telegram_id # telegram_id}
        us1 == IF username_tg # None /\ holders # {}
               THEN [us EXCEPT ![Min(holders)].username_tg = None]
               ELSE us
        found == {i \in Pks(us1) : us1[i].telegram_id = telegram_id}
        reported == IF referred_by # 0 THEN us[referred_by].telegram_id ELSE 0
    IN  IF found = {}
        THEN [users |-> Append(us1,
                         Merge([DefaultUser EXCEPT !.telegram_id = telegram_id,
                                                   !.username_tg = handle,
                                                   !.first_name = first_name,
                                                   !.last_name = last_name,
                                                   !.referred_by = referred_by],
                               extra_fields)),
              user |-> Len(us1) + 1, created |-> TRUE,
              referred_by_telegram_id |-> reported, error |-> None]
        ELSE LET pk == Min(found) IN
             [users |-> [us1 EXCEPT ![pk].username_tg = username_tg,
                                    ![pk].first_name = first_name,
                                    ![pk].last_name = last_name],
              user |-> pk, created |-> FALSE,
              referred_by_telegram_id |-> reported, error |-> None]

\* create_user that looks for the holder before lower-casing the handle
UserManager_create_user_raw_lookup(us, telegram_id, username_tg, first_name, last_name, referred_by_id, extra_fields) ==
    IF telegram_id = 0 THEN CreateFailed(us, "The Telegram ID must be set")
    ELSE
    LET referred_by == IF referred_by_id # 0 /\ referred_by_id \in Pks(us)
                       THEN referred_by_id ELSE 0
        handle == IF username_tg # None THEN Lower(username_tg) ELSE username_tg
        holders == {i \in Pks(us) : /\ us[i].username_tg = username_tg
                                    /\ us[i].telegram_id # telegram_id}
        us1 == IF username_tg # None /\ holders # {}
               THEN [us EXCEPT ![Min(holders)].username_tg = None]
               ELSE us
        found == {i \in Pks(us1) : us1[i].telegram_id = telegram_id}
        reported == IF referred_by # 0 THEN us[referred_by].telegram_id ELSE 0
    IN  IF found = {}
        THEN [users |-> Append(us1,
                         Merge([DefaultUser EXCEPT !.telegram_id = telegram_id,
                                                   !.username_tg = handle,
                                                   !.first_name = first_name,
                                                   !.last_name = last_name,
                                                   !.referred_by = referred_by],
                               extra_fields)),
              user |-> Len(us1) + 1, created |-> TRUE,
              referred_by_telegram_id |-> reported, error |-> None]
        ELSE LET pk == Min(found) IN
             [users |-> [us1 EXCEPT ![pk].username_tg = handle,
                                    ![pk].first_name = first_name,
                                    ![pk].last_name = last_name],
              user |-> pk, created |-> FALSE,
              referred_by_telegram_id |-> reported, error |-> None]

\* create_user that also writes the referrer of an existing user
UserManager_create_user_rerefer(us, telegram_id, username_tg, first_name, last_name, referred_by_id, extra_fields) ==
    IF telegram_id = 0 THEN CreateFailed(us, "The Telegram ID must be set")
    ELSE
    LET referred_by == IF referred_by_id # 0 /\ referred_by_id \in Pks(us)
                       THEN referred_by_id ELSE 0
        handle == IF username_tg # None THEN Lower(username_tg) ELSE username_tg
        holders == {i \in Pks(us) : /\ us[i].username_tg = handle
                                    /\ us[i].telegram_id # telegram_id}
        us1 == IF username_tg # None /\ holders # {}
               THEN [us EXCEPT ![Min(holders)].username_tg = None]
               ELSE us
        found == {i \in Pks(us1) : us1[i].telegram_id = telegram_id}
        reported == IF referred_by # 0 THEN us[referred_by].telegram_id ELSE 0
    IN  IF found = {}
        THEN [users |-> Append(us1,
                         Merge([DefaultUser EXCEPT !.telegram_id = telegram_id,
                                                   !.username_tg = handle,
                                                   !.first_name = first_name,
                                                   !.last_name = last_name,
                                                   !.referred_by = referred_by],
                               extra_fields)),
              user |-> Len(us1) + 1, created |-> TRUE,
              referred_by_telegram_id |-> reported, error |-> None]
        ELSE LET pk == Min(found) IN
             [users |-> [us1 EXCEPT ![pk].username_tg = handle,
                                    ![pk].first_name = first_name,
                                    ![pk].last_name = last_name,
                                    ![pk].referred_by = referred_by],
              user |-> pk, created |-> FALSE,
              referred_by_telegram_id |-> reported, error |-> None]

UserManager_create_user(us, telegram_id, username_tg, first_name, last_name, referred_by_id, extra_fields) ==
    IF telegram_id = 0 THEN CreateFailed(us, "The Telegram ID must be set")
    ELSE
    LET referred_by == IF referred_by_id # 0 /\ referred_by_id \in Pks(us)
                       THEN referred_by_id ELSE 0
        handle == IF username_tg # None THEN Lower(username_tg) ELSE username_tg
        holders == {i \in Pks(us) : /\ us[i].username_tg = handle
                                    /\ us[i].telegram_id # telegram_id}
        us1 == IF username_tg # None /\ holders # {}
               THEN [us EXCEPT ![Min(holders)].username_tg = None]
               ELSE us
        found == {i \in Pks(us1) : us1[i].telegram_id = telegram_id}
        reported == IF referred_by # 0 THEN us[referred_by].telegram_id ELSE 0
    IN  IF found = {}
        THEN [users |-> Append(us1,
                         Merge([DefaultUser EXCEPT !.telegram_id = telegram_id,
                                                   !.username_tg = handle,
                                                   !.first_name = first_name,
                                                   !.last_name = last_name,
                                                   !.referred_by = referred_by],
                               extra_fields)),
              user |-> Len(us1) + 1, created |-> TRUE,
              referred_by_telegram_id |-> reported, error |-> None]
        ELSE LET pk == Min(found) IN
             [users |-> [us1 EXCEPT ![pk].username_tg = handle,
                                    ![pk].first_name = first_name,
                                    ![pk].last_name = last_name],
              user |-> pk, created |-> FALSE,
              referred_by_telegram_id |-> reported, error |-> None]

SuperuserFields ==
    [is_staff |-> TRUE, is_superuser |-> TRUE, full_permissions_api |-> TRUE,
     has_beta_access |-> TRUE, has_alpha_access |-> TRUE]

UserManager_create_superuser(us, telegram_id, username_tg) ==
    UserManager_create_user(us, telegram_id, username_tg, None, None, 0,
                            SuperuserFields)

\* the outcome of an add-address method: its return value and the table
Bound(success, us) == [success |-> success, users |-> us]

\* add_ethereum_address without the lookup of another holder
UserManager_add_ethereum_address_unchecked(us, user, address) ==
    Bound(TRUE, [us EXCEPT ![user].ethereum_address = address])

UserManager_add_ethereum_address(us, user, address) ==
    LET existing_user == {i \in Pks(us) : us[i].ethereum_address = address /\ i # user}
    IN  IF existing_user # {} THEN Bound(FALSE, us)
        ELSE Bound(TRUE, [us EXCEPT ![user].ethereum_address = address])

UserManager_add_base_address(us, user, address) ==
    LET existing_user == {i \in Pks(us) : us[i].base_address = address /\ i # user}
    IN  IF existing_user # {} THEN Bound(FALSE, us)
        ELSE Bound(TRUE, [us EXCEPT ![user].base_address = address])

\* User.add_ethereum_address and User.add_base_address, the methods that
\* refuse to replace an address; no view calls them
User_add_ethereum_address(us, self, address) ==
    IF us[self].ethereum_address # None THEN Bound(FALSE, us)
    ELSE Bound(TRUE, [us EXCEPT ![self].ethereum_address = address])

User_add_base_address(us, self, address) ==
    IF us[self].base_address # None THEN Bound(FALSE, us)
    ELSE Bound(TRUE, [us EXCEPT ![self].base_address = address])

\* ================================== authentication/views.py, registration
\* detect_bot: raised is TRUE when User.objects.get finds no referrer
detect_bot(us, telegram_id, referred_by_id) ==
    LET user_without_username ==
            \E i \in Pks(us) : /\ us[i].telegram_id = telegram_id
                               /\ us[i].username_tg = None
        users_without_usernames_count ==
            Cardinality({i \in Pks(us) : /\ us[i].referred_by = referred_by_id
                                         /\ us[i].username_tg = None})
    IN  IF user_without_username /\ referred_by_id # 0
        THEN IF referred_by_id \notin Pks(us)
             THEN [raised |-> TRUE, value |-> FALSE]
             ELSE [raised |-> FALSE,
                   value |-> users_without_usernames_count > BotThreshold]
        ELSE [raised |-> FALSE, value |-> FALSE]

\* register_user_func_params that keeps the writes made before detect_bot
\* raised
register_user_func_params_no_rollback(us, user_telegram_id, user_username_tg, user_first_name, user_last_name, referred_by_id) ==
    LET made == UserManager_create_user(us, user_telegram_id, user_username_tg,
                    user_first_name, user_last_name, referred_by_id, NoExtra)
        bot == detect_bot(made.users, user_telegram_id, referred_by_id)
    IN  IF made.error # None THEN CreateFailed(us, made.error)
        ELSE IF ~made.created
        THEN [made EXCEPT !.referred_by_telegram_id = 0]
        ELSE IF bot.raised
        THEN CreateFailed(made.users, "User matching query does not exist.")
        ELSE IF bot.value
        THEN [made EXCEPT !.users[made.user].is_bot_suspected = TRUE,
                          !.referred_by_telegram_id = 0]
        ELSE made

\* register_user_func_params: transaction.atomic() undoes every write when
\* create_user or detect_bot raises
register_user_func_params(us, user_telegram_id, user_username_tg, user_first_name, user_last_name, referred_by_id) ==
    LET made == UserManager_create_user(us, user_telegram_id, user_username_tg,
                    user_first_name, user_last_name, referred_by_id, NoExtra)
        bot == detect_bot(made.users, user_telegram_id, referred_by_id)
    IN  IF made.error # None THEN CreateFailed(us, made.error)
        ELSE IF ~made.created
        THEN [made EXCEPT !.referred_by_telegram_id = 0]
        ELSE IF bot.raised
        THEN CreateFailed(us, "User matching query does not exist.")
        ELSE IF bot.value
        THEN [made EXCEPT !.users[made.user].is_bot_suspected = TRUE,
                          !.referred_by_telegram_id = 0]
        ELSE made

\* ========================================= authentication/views.py, logins
\* HMAC-SHA256 as a symbolic value: equal exactly when key and message are
Sign(key, msg) == [key |-> key, msg |-> msg]
\* hashlib.sha256(bot_token)
WidgetKey == "SHA256(TELEGRAM_BOT_TOKEN)"
\* hmac.new("WebAppData", bot_token, sha256)
WebAppKey == "HMAC(WebAppData, TELEGRAM_BOT_TOKEN)"

\* the sorted key=value lines of every field but hash
CheckString(data) == [f \in DOMAIN data \ {"hash"} |-> data[f]]

\* the answer of a view: HTTP status, error message, the user a token was
\* issued for (0 when none), and the state it leaves
Answer(status, message, token, us, ch) ==
    [status |-> status, message |-> message, token |-> token,
     users |-> us, cache |-> ch]

\* check_auth with >= in the expiry test
TelegramLoginView_check_auth_ge(data, time) ==
    LET computed_hash == Sign(WidgetKey, CheckString(data)) IN
    IF computed_hash # data.hash THEN FALSE
    ELSE IF time - data.auth_date * TicksPerSecond >= AuthMaxAge * TicksPerSecond
    THEN FALSE
    ELSE TRUE

\* time is time.time() in ticks of 1/TicksPerSecond s; auth_date is in seconds
TelegramLoginView_check_auth(data, time) ==
    LET computed_hash == Sign(WidgetKey, CheckString(data)) IN
    IF computed_hash # data.hash THEN FALSE
    ELSE IF time - data.auth_date * TicksPerSecond > AuthMaxAge * TicksPerSecond
    THEN FALSE
    ELSE TRUE

TelegramLoginView_get(us, ch, data, time) ==
    IF ~TelegramLoginView_check_auth(data, time)
    THEN Answer(400, "Invalid data", 0, us, ch)
    ELSE LET made == UserManager_create_user(us, data.id, data.username,
                         data.first_name, data.last_name, 0, NoExtra) IN
         IF made.error # None THEN Answer(500, made.error, 0, us, ch)
         ELSE Answer(302, None, made.user, made.users, ch)

\* start_param as its "_"-separated parts; <<>> when absent
StartsWithRef(start_param) == Len(start_param) >= 2 /\ start_param[1] = "ref"

\* int() on the texts the model uses; it raises ValueError on any other
IsNumber(text) == text \in {"1", "2", "3"}
ToInt(text) == CASE text = "1" -> 1 [] text = "2" -> 2 [] OTHER -> 3

\* the Mini-App login that registers the user before it tests auth_date
TelegramWebAppLoginView_get_register_first(us, ch, data, time) ==
    LET computed_hash == Sign(WebAppKey, CheckString(data))
        telegram_id == data.user.id
        isRef == StartsWithRef(data.start_param)
        referred_by_id == IF isRef /\ IsNumber(data.start_param[2])
                          THEN ToInt(data.start_param[2]) ELSE 0
        made == register_user_func_params(us, telegram_id, data.user.username,
                    data.user.first_name, data.user.last_name, referred_by_id)
        new_user == [id |-> made.user, telegram_id |-> telegram_id,
                     username |-> data.user.username,
                     referred_by_telegram_id |-> made.referred_by_telegram_id]
    IN  IF computed_hash # data.hash
        THEN Answer(400, "Invalid authentication data", 0, us, ch)
        ELSE IF telegram_id = 0
        THEN Answer(400, "Missing user parameters", 0, us, ch)
        ELSE IF isRef /\ ~IsNumber(data.start_param[2])
        THEN Answer(400, "Invalid request format", 0, us, ch)
        ELSE IF made.error # None
        THEN Answer(400, "Invalid request format", 0, made.users, ch)
        ELSE IF time - data.auth_date * TicksPerSecond > AuthMaxAge * TicksPerSecond
        THEN Answer(400, "Authentication date expired", 0, made.users, ch)
        ELSE Answer(200, None, made.user, made.users,
                    IF made.created THEN Append(ch, new_user) ELSE ch)

\* every request of the model carries user, auth_date and hash, so the
\* 'Missing parameters' answer is never given
TelegramWebAppLoginView_get(us, ch, data, time) ==
    LET computed_hash == Sign(WebAppKey, CheckString(data))
        telegram_id == data.user.id
        isRef == StartsWithRef(data.start_param)
        referred_by_id == IF isRef /\ IsNumber(data.start_param[2])
                          THEN ToInt(data.start_param[2]) ELSE 0
        made == register_user_func_params(us, telegram_id, data.user.username,
                    data.user.first_name, data.user.last_name, referred_by_id)
        new_user == [id |-> made.user, telegram_id |-> telegram_id,
                     username |-> data.user.username,
                     referred_by_telegram_id |-> made.referred_by_telegram_id]
    IN  IF computed_hash # data.hash
        THEN Answer(400, "Invalid authentication data", 0, us, ch)
        ELSE IF time - data.auth_date * TicksPerSecond > AuthMaxAge * TicksPerSecond
        THEN Answer(400, "Authentication date expired", 0, us, ch)
        ELSE IF telegram_id = 0
        THEN Answer(400, "Missing user parameters", 0, us, ch)
        ELSE IF isRef /\ ~IsNumber(data.start_param[2])
        THEN Answer(400, "Invalid request format", 0, us, ch)
        ELSE IF made.error # None
        THEN Answer(400, "Invalid request format", 0, made.users, ch)
        ELSE Answer(200, None, made.user, made.users,
                    IF made.created THEN Append(ch, new_user) ELSE ch)

\* ===================================== authentication/views.py, tier checks
\* A token as a request carries it, in the Authorization header or in the
\* jwt_token cookie: 0 when absent, -1 for a token that does not validate,
\* else the primary key of the user the token names.
\* JWTAuthentication.get_validated_token and get_user: the error they raise,
\* "ok" when they return the user
JWTAuthentication_get_user(us, raw_token) ==
    IF raw_token \notin Nat THEN "Given token not valid"
    ELSE IF raw_token \notin Pks(us) THEN "User not found"
    ELSE IF ~us[raw_token].is_active THEN "User is inactive"
    ELSE "ok"

\* FullPermissionsJWTAuthentication: super().authenticate(request) reads the
\* Authorization header and nothing else
FullPermissionsJWTAuthentication_authenticate(us, header) ==
    IF header = 0 THEN "No token provided"
    ELSE IF JWTAuthentication_get_user(us, header) # "ok"
    THEN JWTAuthentication_get_user(us, header)
    ELSE IF ~us[header].full_permissions_api
    THEN "User does not have full API permissions"
    ELSE "ok"

\* the outcome of a tier check: the error raised ("ok" when none), the user
\* the request is resolved to (0 when none) and the user table it leaves
Checked(result, user, us) == [result |-> result, user |-> user, users |-> us]

\* the header's token when it carries one, else the cookie's
RawToken(header, cookie) == IF header # 0 THEN header ELSE cookie

AdminJWTAuthentication_authenticate(us, header, cookie) ==
    LET raw_token == RawToken(header, cookie) IN
    IF raw_token = 0 THEN Checked("No token provided", 0, us)
    ELSE IF JWTAuthentication_get_user(us, raw_token) # "ok"
    THEN Checked(JWTAuthentication_get_user(us, raw_token), 0, us)
    ELSE IF ~us[raw_token].is_staff
    THEN Checked("User does not have permissions to send this request", 0, us)
    ELSE Checked("ok", raw_token, us)

\* the Beta check with last_login written before the flag is tested
BetaAccessJWTAuthentication_authenticate_early_save(us, header, cookie, time) ==
    LET raw_token == RawToken(header, cookie) IN
    IF raw_token = 0 THEN Checked("No token provided", 0, us)
    ELSE IF JWTAuthentication_get_user(us, raw_token) # "ok"
    THEN Checked(JWTAuthentication_get_user(us, raw_token), 0, us)
    ELSE IF ~us[raw_token].has_beta_access
    THEN Checked("User does not have access to BETA", 0,
                 [us EXCEPT ![raw_token].last_login = time])
    ELSE Checked("ok", raw_token, [us EXCEPT ![raw_token].last_login = time])

BetaAccessJWTAuthentication_authenticate(us, header, cookie, time) ==
    LET raw_token == RawToken(header, cookie) IN
    IF raw_token = 0 THEN Checked("No token provided", 0, us)
    ELSE IF JWTAuthentication_get_user(us, raw_token) # "ok"
    THEN Checked(JWTAuthentication_get_user(us, raw_token), 0, us)
    ELSE IF ~us[raw_token].has_beta_access
    THEN Checked("User does not have access to BETA", 0, us)
    ELSE Checked("ok", raw_token, [us EXCEPT ![raw_token].last_login = time])

\* the Alpha check testing the Beta flag
AlphaAccessJWTAuthentication_authenticate_beta_flag(us, header, cookie, time) ==
    LET raw_token == RawToken(header, cookie) IN
    IF raw_token = 0 THEN Checked("No token provided", 0, us)
    ELSE IF JWTAuthentication_get_user(us, raw_token) # "ok"
    THEN Checked(JWTAuthentication_get_user(us, raw_token), 0, us)
    ELSE IF ~us[raw_token].has_beta_access
    THEN Checked("User does not have access to ALPHA", 0, us)
    ELSE Checked("ok", raw_token, [us EXCEPT ![raw_token].last_login = time])

AlphaAccessJWTAuthentication_authenticate(us, header, cookie, time) ==
    LET raw_token == RawToken(header, cookie) IN
    IF raw_token = 0 THEN Checked("No token provided", 0, us)
    ELSE IF JWTAuthentication_get_user(us, raw_token) # "ok"
    THEN Checked(JWTAuthentication_get_user(us, raw_token), 0, us)
    ELSE IF ~us[raw_token].has_alpha_access
    THEN Checked("User does not have access to ALPHA", 0, us)
    ELSE Checked("ok", raw_token, [us EXCEPT ![raw_token].last_login = time])

RegisterUserView_post(us, ch, header, body) ==
    LET auth == FullPermissionsJWTAuthentication_authenticate(us, header)
        made == UserManager_create_user(us, body.telegram_id, body.username_tg,
                    body.first_name, body.last_name, body.referred_by_id, NoExtra)
        bot == detect_bot(made.users, body.telegram_id, body.referred_by_id)
    IN  IF auth # "ok" THEN Answer(401, auth, 0, us, ch)
        ELSE IF body.telegram_id = 0
        THEN Answer(400, "Missing telegram_id in request data", 0, us, ch)
        ELSE IF made.error # None THEN Answer(500, made.error, 0, us, ch)
        ELSE IF ~made.created THEN Answer(200, None, made.user, made.users, ch)
        ELSE IF bot.raised
        THEN Answer(500, "User matching query does not exist.", 0, us, ch)
        ELSE IF bot.value
        THEN Answer(201, None, made.user,
                    [made.users EXCEPT ![made.user].is_bot_suspected = TRUE], ch)
        ELSE Answer(201, None, made.user, made.users, ch)

\* the referred_by_telegram_id of RegisterUserView's 201 response (0 when
\* None or when the response has none)
RegisterUserView_post_referred_by_telegram_id(us, body) ==
    LET made == UserManager_create_user(us, body.telegram_id, body.username_tg,
                    body.first_name, body.last_name, body.referred_by_id, NoExtra)
        bot == detect_bot(made.users, body.telegram_id, body.referred_by_id)
    IN  IF made.error # None \/ ~made.created \/ bot.raised \/ bot.value THEN 0
        ELSE made.referred_by_telegram_id

\* CustomTokenObtainPairView: authentication_classes = [], permission_classes = []
CustomTokenObtainPairView_post(us, ch, telegram_id) ==
    LET found == {i \in Pks(us) : us[i].telegram_id = telegram_id} IN
    IF telegram_id = 0
    THEN Answer(400, "Missing telegram_id in request data", 0, us, ch)
    ELSE IF found = {} THEN Answer(404, "User not found", 0, us, ch)
    ELSE Answer(200, None, Min(found), us, ch)

\* EVMAddressView.post behind BetaAccessJWTAuthentication; chain and address
\* are None when the body lacks them
EVMAddressView_post(us, ch, header, cookie, time, chain, address) ==
    LET auth == BetaAccessJWTAuthentication_authenticate(us, header, cookie, time)
        user == auth.user
        bound == IF chain = "ethereum"
                 THEN UserManager_add_ethereum_address(auth.users, user, address)
                 ELSE UserManager_add_base_address(auth.users, user, address)
    IN  IF auth.result # "ok" THEN Answer(401, auth.result, 0, auth.users, ch)
        ELSE IF chain = None \/ address = None
        THEN Answer(400, "Chain and address are required", 0, auth.users, ch)
        ELSE IF chain \notin {"ethereum", "base"}
        THEN Answer(400, "Invalid chain", 0, auth.users, ch)
        ELSE IF bound.success THEN Answer(200, None, 0, bound.users, ch)
        ELSE Answer(400, "Address already belongs to another user", 0,
                    bound.users, ch)

\* ---------------------------------- authentication/views.py, registration
\* of a wallet address
\* EVMChain.objects.get(name__iexact=chain, is_active=True): the rows it finds
EVMChain_get(chs, chain) ==
    {c \in chs : Lower(c.name) = Lower(chain) /\ c.is_active}

HexDigits ==
    {"0", "1", "2", "3", "4", "5", "6", "7", "8", "9",
     "a", "b", "c", "d", "e", "f", "A", "B", "C", "D", "E", "F"}

\* re.match(r'^0x[a-fA-F0-9]{40}$', address): $ matches at the end of the
\* string and also before a newline that ends it
validate_evm_address(address) ==
    IF address = None \/ address = "" THEN FALSE
    ELSE LET length == Len(address)
             last_digit == 2 + AddressHexDigits
         IN  /\ length \in {last_digit, last_digit + 1}
             /\ SubSeq(address, 1, 2) = "0x"
             /\ \A i \in 3..last_digit : SubSeq(address, i, i) \in HexDigits
             /\ length = last_digit + 1 => SubSeq(address, length, length) = "\n"

\* User.get_evm_addresses: the addresses a user has stored, by chain
User_get_evm_addresses(self) ==
    [chain \in {c \in {"ethereum", "base"} :
                   self[IF c = "ethereum" THEN "ethereum_address"
                        ELSE "base_address"] # None} |->
        IF chain = "ethereum" THEN self.ethereum_address ELSE self.base_address]

\* EVMWalletRegistrationView.post behind BetaAccessJWTAuthentication. The
\* address columns are CharField(max_length=42): user.save() with a longer
\* value raises on a database that enforces the length (varchar) and stores
\* the value on one that does not; get() raises when it finds two rows
EVMWalletRegistrationView_post(us, ch, chs, header, cookie, time, chain, address, varchar) ==
    LET auth == BetaAccessJWTAuthentication_authenticate(us, header, cookie, time)
        user == auth.user
        found == EVMChain_get(chs, chain)
        evm_chain == CHOOSE c \in found : TRUE
        name == Lower(evm_chain.name)
        existing_user ==
            IF name = "ethereum"
            THEN {i \in Pks(auth.users) :
                    auth.users[i].ethereum_address = address /\ i # user}
            ELSE IF name = "base"
            THEN {i \in Pks(auth.users) :
                    auth.users[i].base_address = address /\ i # user}
            ELSE {}
        saved ==
            IF name = "ethereum"
            THEN [auth.users EXCEPT ![user].ethereum_address = address]
            ELSE IF name = "base"
            THEN [auth.users EXCEPT ![user].base_address = address]
            ELSE auth.users
    IN  IF auth.result # "ok" THEN Answer(401, auth.result, 0, auth.users, ch)
        ELSE IF chain = None \/ address = None
        THEN Answer(400, "Chain and address are required", 0, auth.users, ch)
        ELSE IF found = {}
        THEN Answer(400, "Invalid or inactive chain", 0, auth.users, ch)
        ELSE IF Cardinality(found) > 1
        THEN Answer(500, "Internal server error", 0, auth.users, ch)
        ELSE IF ~validate_evm_address(address)
        THEN Answer(400, "Invalid EVM address format", 0, auth.users, ch)
        ELSE IF existing_user # {}
        THEN Answer(400, "This address is already registered to another user",
                    0, auth.users, ch)
        ELSE IF /\ name \in {"ethereum", "base"}
                /\ Len(address) > 2 + AddressHexDigits
                /\ varchar
        THEN Answer(500, "Internal server error", 0, auth.users, ch)
        ELSE Answer(200, None, 0, saved, ch)

\* --------------------------- authentication/views.py, the new-user buffer
\* the drain that leaves the buffer as it found it
GetNewUsersAPIView_get_keep(us, ch, header, cookie) ==
    LET auth == AdminJWTAuthentication_authenticate(us, header, cookie)
        new_users == ch
    IN  IF auth.result # "ok"
        THEN [status |-> 401, data |-> <<>>, cache |-> ch]
        ELSE [status |-> 200, data |-> new_users, cache |-> ch]

\* GetNewUsersAPIView.get behind AdminJWTAuthentication: cache.get, then
\* cache.set('new_users', []). Every request of the model is made within
\* the 5 minutes the cache keeps the entry
GetNewUsersAPIView_get(us, ch, header, cookie) ==
    LET auth == AdminJWTAuthentication_authenticate(us, header, cookie)
        new_users == ch
    IN  IF auth.result # "ok"
        THEN [status |-> 401, data |-> <<>>, cache |-> ch]
        ELSE [status |-> 200, data |-> new_users, cache |-> <<>>]

\* ------------------------------------------------------- request inputs
TelegramIds == 0..MaxTelegramId
Handles == {None, "Bob"}
\* first_name and last_name as they arrive together
NamePairs == {<<None, None>>, <<"Ann", "Lee">>}
AuthDates == 0..MaxAuthDate
StartParams == {<<>>, <<"promo">>, <<"ref", "x">>, <<"ref", "1">>, <<"ref", "3">>}

\* the fields of a widget login (photo_url, which no code reads, is left out)
WidgetPayloads(ids, handles, names) ==
    {[id |-> i, username |-> h, first_name |-> n[1], last_name |-> n[2],
      auth_date |-> d] : i \in ids, h \in handles, n \in names, d \in AuthDates}

\* the fields of a Mini-App login; user is the parsed JSON object
WebAppPayloads(ids, handles, names, params) ==
    {[user |-> [id |-> i, username |-> h, first_name |-> n[1],
                last_name |-> n[2]],
      auth_date |-> d, start_param |-> sp] :
        i \in ids, h \in handles, n \in names, d \in AuthDates, sp \in params}

WithHash(payload, hash) ==
    [f \in DOMAIN payload \cup {"hash"} |->
        IF f = "hash" THEN hash ELSE payload[f]]

OtherId(i) == (i % MaxTelegramId) + 1
OtherDate(d) == (d + 1) % (MaxAuthDate + 1)

\* the hashes a sender may attach to a payload: Telegram's signature of it,
\* a signature made with the other protocol's key, and Telegram's signature
\* of a payload for another identity or with another auth_date
Hashes(key, otherKey, sent, forOtherId, forOtherDate) ==
    {Sign(key, sent), Sign(otherKey, sent), Sign(key, forOtherId),
     Sign(key, forOtherDate)}

\* the hash is genuine: Telegram computed it, with this protocol's key, over
\* exactly the fields that were sent
Genuine(key, data) == data.hash = Sign(key, CheckString(data))

NoRequest ==
    [view |-> None, status |-> 0, message |-> None, token |-> 0, own |-> FALSE,
     hashOk |-> FALSE, age |-> 0, callerFull |-> FALSE]

\* the clock runs from one tick before the expiry of an auth_date of 0 to
\* one second after it
NowStart == AuthMaxAge * TicksPerSecond - 1
NowEnd == (AuthMaxAge + 1) * TicksPerSecond

\* a view has answered: its writes are committed, an issued token is in
\* circulation. own: the token is for the identity the request named
Handled(view, ans, id, hashOk, age, callerFull) ==
    /\ Len(ans.users) <= MaxUsers
    /\ users' = ans.users
    /\ cache' = ans.cache
    /\ bearer' = IF ans.token # 0 THEN bearer \cup {ans.token} ELSE bearer
    /\ lastReq' = [view |-> view, status |-> ans.status, message |-> ans.message,
                   token |-> ans.token,
                   own |-> ans.token # 0 /\ ans.users[ans.token].telegram_id = id,
                   hashOk |-> hashOk, age |-> age, callerFull |-> callerFull]
    /\ UNCHANGED <<now, ledgerVars, concVars, equivVars,
                   registryVars, appVars>>

WidgetLogin(ids, handles, names) ==
    \E sent \in WidgetPayloads(ids, handles, names) :
      \E hash \in Hashes(WidgetKey, WebAppKey, sent,
                         [sent EXCEPT !.id = OtherId(@)],
                         [sent EXCEPT !.auth_date = OtherDate(@)]) :
        LET data == WithHash(sent, hash) IN
        Handled("widget", TelegramLoginView_get(users, cache, data, now),
                data.id, Genuine(WidgetKey, data),
                now - data.auth_date * TicksPerSecond, FALSE)

WebAppLogin(ids, handles, names, params) ==
    \E sent \in WebAppPayloads(ids, handles, names, params) :
      \E hash \in Hashes(WebAppKey, WidgetKey, sent,
                         [sent EXCEPT !.user.id = OtherId(@)],
                         [sent EXCEPT !.auth_date = OtherDate(@)]) :
        LET data == WithHash(sent, hash) IN
        Handled("webapp", TelegramWebAppLoginView_get(users, cache, data, now),
                data.user.id, Genuine(WebAppKey, data),
                now - data.auth_date * TicksPerSecond, FALSE)

\* the Authorization header carries a token that was issued, garbage, or is
\* absent
RegisterUser(ids, handles, names, referrers) ==
    \E header \in bearer \cup {0, -1}, i \in ids, h \in handles,
       n \in names, r \in referrers :
        LET body == [telegram_id |-> i, username_tg |-> h, first_name |-> n[1],
                     last_name |-> n[2], referred_by_id |-> r] IN
        Handled("register", RegisterUserView_post(users, cache, header, body),
                i, FALSE, 0,
                header \in Pks(users) /\ users[header].full_permissions_api)

ObtainTokenPair ==
    \E i \in TelegramIds :
        Handled("token", CustomTokenObtainPairView_post(users, cache, i),
                i, FALSE, 0, FALSE)

\* manage.py createsuperuser
CreateSuperuserOf(ids) ==
    \E i \in ids, h \in {None} :
        LET made == UserManager_create_superuser(users, i, h) IN
        /\ Len(made.users) <= MaxUsers
        /\ users' = made.users
        /\ tier' = <<>> /\ reg' = <<>> /\ bind' = <<>>
        /\ feed' = [feed EXCEPT !.op = None]
        /\ UNCHANGED <<now, bearer, cache, lastReq, job, ledgerVars, concVars,
                       equivVars, evm_chains, poll, squad, chat>>

CreateSuperuser == CreateSuperuserOf(1..MaxTelegramId)

Tick ==
    /\ now < NowEnd
    /\ now' = now + 1
    /\ tier' = <<>> /\ reg' = <<>> /\ bind' = <<>>
    /\ UNCHANGED <<users, bearer, cache, lastReq, job, ledgerVars, concVars,
                   equivVars, appVars>>

AuthInit ==
    /\ IdleAuth
    /\ now = NowStart
    /\ lastReq = NoRequest

InitAuth ==
    IdleLedger /\ IdleConc /\ IdleEquiv /\ AuthInit /\ IdleRegistry /\ IdleApp

Anonymous == {<<None, None>>}

NextAuth ==
    \/ WidgetLogin(TelegramIds, Handles, Anonymous)
    \/ WebAppLogin(TelegramIds, Handles, Anonymous, {<<>>, <<"ref", "1">>})
    \/ RegisterUser(TelegramIds, Handles, Anonymous, 0..1)
    \/ ObtainTokenPair
    \/ CreateSuperuser
    \/ Tick

SpecAuth == InitAuth /\ [][NextAuth]_vars

\* ------------------------------------------ requests behind a tier check
\* the authentication step of a request has run: last_login is saved, the
\* outcome is known
TierChecked(class, header, cookie, out) ==
    /\ users' = out.users
    /\ tier' = [class |-> class, header |-> header, cookie |-> cookie,
                result |-> out.result, user |-> out.user, pre |-> users,
                at |-> now]
    /\ reg' = <<>> /\ bind' = <<>>
    /\ UNCHANGED <<now, bearer, cache, lastReq, job, ledgerVars, concVars,
                   equivVars, appVars>>

FullPermissionsCheck(tokens) ==
    \E header \in tokens, cookie \in tokens :
        LET result == FullPermissionsJWTAuthentication_authenticate(users, header)
        IN  TierChecked("FullPermissions", header, cookie,
                        Checked(result, IF result = "ok" THEN header ELSE 0, users))

AdminCheck(tokens) ==
    \E header \in tokens, cookie \in tokens :
        TierChecked("Admin", header, cookie,
                    AdminJWTAuthentication_authenticate(users, header, cookie))

BetaCheck(tokens) ==
    \E header \in tokens, cookie \in tokens :
        TierChecked("Beta", header, cookie,
                    BetaAccessJWTAuthentication_authenticate(users, header, cookie, now))

AlphaCheck(tokens) ==
    \E header \in tokens, cookie \in tokens :
        TierChecked("Alpha", header, cookie,
                    AlphaAccessJWTAuthentication_authenticate(users, header, cookie, now))

\* the 'Permissions' fieldset of the admin's user form
Permissions ==
    [is_active : BOOLEAN, is_staff : BOOLEAN, full_permissions_api : BOOLEAN,
     has_beta_access : BOOLEAN, has_alpha_access : BOOLEAN]

AdminSetPermissions(pks) ==
    \E pk \in pks \cap Pks(users), form \in Permissions :
        /\ users' = [users EXCEPT ![pk] = Merge(@, form)]
        /\ tier' = <<>> /\ reg' = <<>> /\ bind' = <<>>
        /\ UNCHANGED <<now, bearer, cache, lastReq, job, ledgerVars, concVars,
                       equivVars, appVars>>

\* one user, whose permissions the admin edits, and requests carrying no
\* token, a bad token, that user's token or the token of a user that is gone
NextTier ==
    \/ CreateSuperuserOf({1})
    \/ AdminSetPermissions({1})
    \/ FullPermissionsCheck({0, -1, 1, 2})
    \/ AdminCheck({0, -1, 1, 2})
    \/ BetaCheck({0, -1, 1, 2})
    \/ AlphaCheck({0, -1, 1, 2})
    \/ Tick

SpecTier == InitAuth /\ [][NextTier]_vars

\* ------------------------------------------- logins that reach the registry
\* a login whose payload Telegram signed has been answered. reported: the
\* referrer's Telegram id as the view hands it on (0 when absent); again: the
\* step before made a call with the same identity, handle and names; first:
\* that call created the user. feed.pending lists the users that Mini-App
\* logins have created since the last drain
SignedIn(op, id, handle, names, start_param, referred_by_id, ans, reported, most) ==
    LET created == Len(ans.users) > Len(users) IN
    /\ Len(ans.users) <= most
    /\ users' = ans.users
    /\ cache' = ans.cache
    /\ bearer' = IF ans.token # 0 THEN bearer \cup {ans.token} ELSE bearer
    /\ reg' = [op |-> op, telegram_id |-> id, username_tg |-> handle,
               first_name |-> names[1], last_name |-> names[2],
               start_param |-> start_param, referred_by_id |-> referred_by_id,
               status |-> ans.status, error |-> ans.message, user |-> ans.token,
               created |-> created,
               reported |-> reported,
               pre |-> users,
               again |-> /\ reg # <<>>
                         /\ reg.telegram_id = id /\ reg.username_tg = handle
                         /\ reg.first_name = names[1] /\ reg.last_name = names[2],
               first |-> reg # <<>> /\ reg.created]
    /\ feed' = [op |-> op, status |-> ans.status, pre |-> cache,
                returned |-> <<>>, due |-> feed.pending,
                pending |-> IF op = "webapp" /\ created
                            THEN Append(feed.pending, ans.token)
                            ELSE feed.pending,
                again |-> FALSE]
    /\ tier' = <<>> /\ bind' = <<>>
    /\ UNCHANGED <<now, job, ledgerVars, concVars, equivVars,
                   evm_chains, poll, squad, chat>>

\* a widget login with Telegram's signature and auth_date = 0
WidgetSignIn(ids, handles, names, most) ==
    \E i \in ids, h \in handles, n \in names :
        LET sent == [id |-> i, username |-> h, first_name |-> n[1],
                     last_name |-> n[2], auth_date |-> 0]
            data == WithHash(sent, Sign(WidgetKey, sent))
        IN  /\ SignedIn("widget", i, h, n, <<>>, 0,
                        TelegramLoginView_get(users, cache, data, now), 0, most)
            /\ UNCHANGED lastReq

\* a Mini-App login with Telegram's signature and auth_date = 0
MiniAppSignIn(ids, handles, names, params, most) ==
    \E i \in ids, h \in handles, n \in names, sp \in params :
        LET sent == [user |-> [id |-> i, username |-> h, first_name |-> n[1],
                               last_name |-> n[2]],
                     auth_date |-> 0, start_param |-> sp]
            data == WithHash(sent, Sign(WebAppKey, sent))
            ans == TelegramWebAppLoginView_get(users, cache, data, now)
        IN  /\ SignedIn("webapp", i, h, n, sp,
                        IF StartsWithRef(sp) /\ IsNumber(sp[2]) THEN ToInt(sp[2]) ELSE 0,
                        ans,
                        IF Len(ans.cache) > Len(cache)
                        THEN ans.cache[Len(ans.cache)].referred_by_telegram_id ELSE 0,
                        most)
            /\ UNCHANGED lastReq

\* a registration through the API by a caller holding an issued token, or none
ApiRegister(ids, handles, names, referrers, most) ==
    \E header \in bearer \cup {0}, i \in ids, h \in handles, n \in names,
       r \in referrers :
        LET body == [telegram_id |-> i, username_tg |-> h, first_name |-> n[1],
                     last_name |-> n[2], referred_by_id |-> r]
        IN  /\ SignedIn("register", i, h, n, <<>>, r,
                        RegisterUserView_post(users, cache, header, body),
                        RegisterUserView_post_referred_by_telegram_id(users, body),
                        most)
            /\ UNCHANGED lastReq

\* a login with any of the hashes a sender may attach and any auth_date has
\* been answered: reg and feed keep the tables before it, lastReq what it
\* had passed
Attempted(view, data, user, ans, key) ==
    /\ SignedIn(view, user.id, user.username,
                <<user.first_name, user.last_name>>, <<>>, 0, ans, 0, MaxUsers)
    /\ lastReq' = [view |-> view, status |-> ans.status,
                   message |-> ans.message, token |-> ans.token,
                   own |-> ans.token # 0 /\ ans.users[ans.token].telegram_id = user.id,
                   hashOk |-> Genuine(key, data),
                   age |-> now - data.auth_date * TicksPerSecond,
                   callerFull |-> FALSE]

WidgetAttempt(ids, handles, names) ==
    \E sent \in WidgetPayloads(ids, handles, names) :
      \E hash \in Hashes(WidgetKey, WebAppKey, sent,
                         [sent EXCEPT !.id = OtherId(@)],
                         [sent EXCEPT !.auth_date = OtherDate(@)]) :
        LET data == WithHash(sent, hash) IN
        Attempted("widget", data, data,
                  TelegramLoginView_get(users, cache, data, now), WidgetKey)

WebAppAttempt(ids, handles, names) ==
    \E sent \in WebAppPayloads(ids, handles, names, {<<>>}) :
      \E hash \in Hashes(WebAppKey, WidgetKey, sent,
                         [sent EXCEPT !.user.id = OtherId(@)],
                         [sent EXCEPT !.auth_date = OtherDate(@)]) :
        LET data == WithHash(sent, hash) IN
        Attempted("webapp", data, data.user,
                  TelegramWebAppLoginView_get(users, cache, data, now), WebAppKey)

\* widget logins of one identity with handles, Mini-App logins of another
\* with handles and names, with genuine and other hashes, while the clock
\* passes the expiry
NextOrder ==
    \/ WidgetAttempt({2}, Handles, Anonymous)
    \/ WebAppAttempt({1}, Handles, NamePairs)
    \/ Tick

SpecOrder == InitAuth /\ [][NextOrder]_vars

Referrals == {<<>>, <<"promo">>, <<"ref", "1">>, <<"ref", "2">>}

\* logins with handles in either case and with names, without referrals; the
\* Mini-App logins are those of one identity
NextReg ==
    \/ WidgetSignIn(1..MaxTelegramId, {None, "Bob", "bob"}, NamePairs, MaxUsers)
    \/ MiniAppSignIn({1}, {None, "Bob"}, NamePairs, {<<>>}, MaxUsers)

SpecReg == InitAuth /\ [][NextReg]_vars

\* logins with and without a handle, Mini-App logins with referrals
NextRef ==
    \/ WidgetSignIn(1..MaxTelegramId, Handles, Anonymous, MaxUsers)
    \/ MiniAppSignIn(1..MaxTelegramId, Handles, Anonymous, Referrals, MaxUsers)

SpecRef == InitAuth /\ [][NextRef]_vars

\* logins that may name no identity (0), and Mini-App logins that may name a
\* referrer who does not exist
NextFail ==
    \/ WidgetSignIn({0, 1}, Handles, NamePairs, MaxUsers)
    \/ MiniAppSignIn({0, 2}, Handles, Anonymous,
                     {<<>>, <<"ref", "3">>}, MaxUsers)

SpecFail == InitAuth /\ [][NextFail]_vars

\* a superuser who refers every user registered through the API; the handle
\* "Bob" passes from one of them to the next
NextBot ==
    \/ CreateSuperuserOf({1})
    \/ MiniAppSignIn({1}, {None}, Anonymous, {<<>>}, MaxReferred + 1)
    \/ ApiRegister({Len(users) + 1}, Handles, Anonymous, {1}, MaxReferred + 1)

SpecBot == InitAuth /\ [][NextBot]_vars

\* ----------------------------- create_user calls running at the same time
\* The widget login calls create_user outside any transaction: each query and
\* each save() is committed on its own. Request p signs in as Telegram id p
\* with a handle; job[p] holds its position and the instances it has loaded.
JobStep(p, next, fields) ==
    /\ job' = [job EXCEPT ![p] = Merge([@ EXCEPT !.pc = next], fields)]
    /\ UNCHANGED <<now, bearer, cache, lastReq, tier, reg, bind, ledgerVars,
                   concVars, equivVars, appVars>>

\* username_tg.lower(), then filter(username_tg=...).exclude(telegram_id=...).first()
JobLookup(p, handles) ==
    /\ job[p].pc = "start"
    /\ \E h \in handles :
         LET holders == {i \in Pks(users) :
                           /\ users[i].username_tg = Lower(h)
                           /\ users[i].telegram_id # job[p].telegram_id}
             found == IF holders = {} THEN 0 ELSE Min(holders)
         IN  JobStep(p, IF found = 0 THEN "get_or_create" ELSE "evict",
                     [username_tg |-> Lower(h), existing_user |-> found,
                      loaded |-> IF found = 0 THEN DefaultUser ELSE users[found]])
    /\ UNCHANGED users

\* existing_user.username_tg = None; existing_user.save(): an UPDATE that
\* writes every field of the instance
JobEvict(p) ==
    /\ job[p].pc = "evict"
    /\ users' = [users EXCEPT ![job[p].existing_user] =
                    [job[p].loaded EXCEPT !.username_tg = None]]
    /\ JobStep(p, "get_or_create", [existing_user |-> job[p].existing_user])

\* get_or_create(telegram_id=..., defaults=...)
JobGetOrCreate(p) ==
    /\ job[p].pc = "get_or_create"
    /\ LET found == {i \in Pks(users) : users[i].telegram_id = job[p].telegram_id}
       IN  IF found = {}
           THEN /\ users' = Append(users,
                                [DefaultUser EXCEPT
                                    !.telegram_id = job[p].telegram_id,
                                    !.username_tg = job[p].username_tg])
                /\ JobStep(p, "done", [user |-> Len(users) + 1])
           ELSE /\ UNCHANGED users
                /\ JobStep(p, "update",
                           [user |-> Min(found), loaded |-> users[Min(found)]])

\* the update of an existing user and user.save()
JobUpdate(p) ==
    /\ job[p].pc = "update"
    /\ users' = [users EXCEPT ![job[p].user] =
                    [job[p].loaded EXCEPT !.username_tg = job[p].username_tg,
                                          !.first_name = None,
                                          !.last_name = None]]
    /\ JobStep(p, "done", [user |-> job[p].user])

\* the tables that one or two create_user calls, made one at a time, leave
Seeded(us, telegram_id, username_tg) ==
    UserManager_create_user(us, telegram_id, username_tg, None, None, 0, NoExtra).users

RaceTables ==
    {<<>>}
      \cup {Seeded(<<>>, i, h) : i \in 1..(NumRequests + 1), h \in Handles}
      \cup {Seeded(Seeded(<<>>, i, h), j, g) :
               i \in 1..(NumRequests + 1), h \in Handles,
               j \in 1..(NumRequests + 1), g \in Handles}

RaceInit ==
    /\ users \in RaceTables
    /\ now = NowStart
    /\ bearer = {}
    /\ cache = <<>>
    /\ lastReq = NoRequest
    /\ tier = <<>> /\ reg = <<>> /\ bind = <<>>
    /\ job = [p \in Requests |->
                [pc |-> "start", telegram_id |-> p, username_tg |-> None,
                 existing_user |-> 0, loaded |-> DefaultUser, user |-> 0]]

InitRace == IdleLedger /\ IdleConc /\ IdleEquiv /\ RaceInit /\ IdleApp

NextRace ==
    \E p \in Requests :
        \/ JobLookup(p, {"Bob", "bob"})
        \/ JobEvict(p)
        \/ JobGetOrCreate(p)
        \/ JobUpdate(p)

SpecRace == InitRace /\ [][NextRace]_vars

\* -------------------------------------------------- the add-address endpoint
AddAddress(tokens, chains, addresses) ==
    \E header \in tokens, chain \in chains, address \in addresses :
        LET ans == EVMAddressView_post(users, cache, header, 0, now, chain, address)
        IN  /\ users' = ans.users
            /\ bind' = [view |-> "add",
                        user |-> IF ans.status = 401 THEN 0 ELSE header,
                        chain |-> chain, address |-> address,
                        status |-> ans.status, message |-> ans.message,
                        pre |-> users]
            /\ tier' = <<>> /\ reg' = <<>>
            /\ UNCHANGED <<now, bearer, cache, lastReq, job, ledgerVars, concVars,
                           equivVars, appVars>>

\* superusers, who pass the Beta check, binding addresses on both chains
NextAddr ==
    \/ CreateSuperuserOf(1..MaxTelegramId)
    \/ AddAddress(0..MaxTelegramId, {None, "ethereum", "base", "solana"},
                  {None, "0xA", "0xB"})

SpecAddr == InitAuth /\ [][NextAddr]_vars

\* ------------------------------------------------- the new-user buffer
\* a drain request has been answered. due: the users Mini-App logins had
\* created since the last drain; again: the step before was a drain too
Drain(tokens) ==
    \E header \in tokens :
        LET ans == GetNewUsersAPIView_get(users, cache, header, 0) IN
        /\ cache' = ans.cache
        /\ feed' = [op |-> "drain", status |-> ans.status, pre |-> cache,
                    returned |-> ans.data, due |-> feed.pending,
                    pending |-> IF ans.status = 200 THEN <<>> ELSE feed.pending,
                    again |-> feed.op = "drain" /\ feed.status = 200]
        /\ tier' = <<>> /\ reg' = <<>> /\ bind' = <<>>
        /\ UNCHANGED <<users, now, bearer, lastReq, job, ledgerVars, concVars,
                       equivVars, evm_chains, poll, squad, chat>>

\* a superuser, widget and Mini-App logins of new and of known users, and
\* drains by the superuser, by another user and without a token
NextFeed ==
    \/ CreateSuperuserOf({1})
    \/ WidgetSignIn(1..(MaxTelegramId + 1), {None}, Anonymous, MaxUsers + 1)
    \/ MiniAppSignIn(1..(MaxTelegramId + 1), {None}, Anonymous, {<<>>},
                     MaxUsers + 1)
    \/ Drain(0..(MaxUsers + 1))

SpecFeed == InitAuth /\ [][NextFeed]_vars

\* ------------------------- logins and drains running at the same time
\* The cache is read and written by separate calls with nothing to hold it
\* between them. Login p is the first Mini-App login of Telegram id p, with
\* Telegram's signature; drain p is a request of the superuser. poll holds
\* each request's position and the list it has read.
PollStep(kind, p, next, new_users) ==
    /\ poll' = [poll EXCEPT ![kind][p] = [pc |-> next, new_users |-> new_users]]
    /\ UNCHANGED <<now, lastReq, tier, reg, bind, job, ledgerVars, concVars,
                   equivVars, evm_chains, feed, squad, chat>>

\* register_user_func_params and get_jwt_token
LoginRegister(p) ==
    /\ poll.login[p].pc = "start"
    /\ LET made == register_user_func_params(users, p, None, None, None, 0) IN
         /\ users' = made.users
         /\ bearer' = bearer \cup {made.user}
         /\ PollStep("login", p, IF made.created THEN "get" ELSE "done", <<>>)
    /\ UNCHANGED cache

\* new_users = cache.get('new_users', [])
LoginGet(p) ==
    /\ poll.login[p].pc = "get"
    /\ PollStep("login", p, "set", cache)
    /\ UNCHANGED <<users, bearer, cache>>

\* new_users.append(new_user); cache.set('new_users', new_users, timeout=60*5)
LoginSet(p) ==
    /\ poll.login[p].pc = "set"
    /\ LET user == CHOOSE i \in Pks(users) : users[i].telegram_id = p
           new_user == [id |-> user, telegram_id |-> p, username |-> None,
                        referred_by_telegram_id |-> 0]
       IN  /\ cache' = Append(poll.login[p].new_users, new_user)
           /\ PollStep("login", p, "done", cache')
    /\ UNCHANGED <<users, bearer>>

\* the Admin check, then new_users = cache.get('new_users', [])
DrainGet(p) ==
    /\ poll.drain[p].pc = "start"
    /\ \E header \in Pks(users) :
         /\ AdminJWTAuthentication_authenticate(users, header, 0).result = "ok"
         /\ PollStep("drain", p, "set", cache)
    /\ UNCHANGED <<users, bearer, cache>>

\* cache.set('new_users', []), then the response with the list that was read
DrainSet(p) ==
    /\ poll.drain[p].pc = "set"
    /\ cache' = <<>>
    /\ PollStep("drain", p, "done", poll.drain[p].new_users)
    /\ UNCHANGED <<users, bearer>>

\* a superuser exists; nothing has been recorded, no request has started
InitPoll ==
    /\ IdleLedger /\ IdleConc /\ IdleEquiv /\ IdleRegistry
    /\ users = UserManager_create_superuser(<<>>, NumRequests + 1, None).users
    /\ now = NowStart
    /\ bearer = {}
    /\ cache = <<>>
    /\ lastReq = NoRequest
    /\ evm_chains = {} /\ feed = NoFeed /\ squad = <<>> /\ chat = <<>>
    /\ poll = [kind \in {"login", "drain"} |->
                 [p \in Requests |-> [pc |-> "start", new_users |-> <<>>]]]

NextPoll ==
    \E p \in Requests :
        \/ LoginRegister(p)
        \/ LoginGet(p)
        \/ LoginSet(p)
        \/ DrainGet(p)
        \/ DrainSet(p)

SpecPoll == InitPoll /\ [][NextPoll]_vars

\* =========================================== squad/models.py, membership
\* members holds the rows of the members relation, as user primary keys in
\* the order they were added. A method's outcome is the squad afterwards and
\* the ValidationError raised (None when none)
Squad_get_member_count(self) == Len(self.members) + 1

\* add_member without the test for the owner
Squad_add_member_owner_unchecked(self, user) ==
    IF Len(self.members) >= self.max_members
    THEN [squad |-> self, error |-> "Squad is at maximum capacity"]
    ELSE IF \E i \in 1..Len(self.members) : self.members[i] = user
    THEN [squad |-> self, error |-> "User is already a member"]
    ELSE [squad |-> [self EXCEPT !.members = Append(@, user)], error |-> None]

Squad_add_member(self, user) ==
    IF Len(self.members) >= self.max_members
    THEN [squad |-> self, error |-> "Squad is at maximum capacity"]
    ELSE IF \E i \in 1..Len(self.members) : self.members[i] = user
    THEN [squad |-> self, error |-> "User is already a member"]
    ELSE IF user = self.owner
    THEN [squad |-> self, error |-> "Owner cannot be added as a member"]
    ELSE [squad |-> [self EXCEPT !.members = Append(@, user)], error |-> None]

Squad_remove_member(self, user) ==
    IF user = self.owner
    THEN [squad |-> self, error |-> "Cannot remove squad owner"]
    ELSE LET Others(u) == u # user IN
         [squad |-> [self EXCEPT !.members = SelectSeq(@, Others)],
          error |-> None]

Squad_is_member(self, user) ==
    user = self.owner \/ \E i \in 1..Len(self.members) : self.members[i] = user

\* a squad as it is created: an owner, a capacity, no members
InitSquad ==
    /\ IdleLedger /\ IdleConc /\ IdleEquiv /\ IdleAuth /\ IdleRegistry
    /\ evm_chains = {} /\ feed = NoFeed /\ poll = <<>> /\ chat = <<>>
    /\ \E owner \in 1..(MaxUsers + 1), max_members \in 1..MaxMembers :
         squad = [self |-> [owner |-> owner, members |-> <<>>,
                            max_members |-> max_members],
                  call |-> [method |-> None, user |-> 0, error |-> None,
                            pre |-> <<>>]]

\* a membership method has returned or raised
SquadCall(method, user, out) ==
    /\ squad' = [self |-> out.squad,
                 call |-> [method |-> method, user |-> user,
                           error |-> out.error, pre |-> squad.self.members]]
    /\ UNCHANGED <<ledgerVars, concVars, equivVars, authVars, registryVars,
                   evm_chains, feed, poll, chat>>

AddMember ==
    \E user \in 1..(MaxUsers + 1) :
        SquadCall("add_member", user, Squad_add_member(squad.self, user))

RemoveMember ==
    \E user \in 1..(MaxUsers + 1) :
        SquadCall("remove_member", user, Squad_remove_member(squad.self, user))

NextSquad == AddMember \/ RemoveMember

SpecSquad == InitSquad /\ [][NextSquad]_vars

\* ============================================ squad/views.py, chat creation
\* Telegram chat ids are negative numbers; 0 stands for a chat_id that is
\* absent or 0, which 'not chat_id' treats alike. user is the authenticated
\* user of the request, 0 when there is none. A view's outcome is its HTTP
\* status and the tables it leaves
\* the view without the lookup of an existing chat
ChatCreateView_post_unchecked(chats, activities, user, chat_id, title) ==
    IF user = 0
    THEN [status |-> 401, chats |-> chats, activities |-> activities]
    ELSE IF chat_id = 0 \/ title \in {None, ""}
    THEN [status |-> 400, chats |-> chats, activities |-> activities]
    ELSE [status |-> 201,
          chats |-> Append(chats, [chat_id |-> chat_id, title |-> title]),
          activities |-> Append(activities,
                                [chat |-> Len(chats) + 1, user |-> user,
                                 activity_type |-> "chat_created"])]

\* ChatCreateView.post behind permission_classes = [IsAuthenticated]
ChatCreateView_post(chats, activities, user, chat_id, title) ==
    IF user = 0
    THEN [status |-> 401, chats |-> chats, activities |-> activities]
    ELSE IF chat_id = 0 \/ title \in {None, ""}
    THEN [status |-> 400, chats |-> chats, activities |-> activities]
    ELSE IF \E i \in 1..Len(chats) : chats[i].chat_id = chat_id
    THEN [status |-> 400, chats |-> chats, activities |-> activities]
    ELSE [status |-> 201,
          chats |-> Append(chats, [chat_id |-> chat_id, title |-> title]),
          activities |-> Append(activities,
                                [chat |-> Len(chats) + 1, user |-> user,
                                 activity_type |-> "chat_created"])]

\* no chat, no activity, no request yet
InitChat ==
    /\ IdleLedger /\ IdleConc /\ IdleEquiv /\ IdleAuth /\ IdleRegistry
    /\ evm_chains = {} /\ feed = NoFeed /\ poll = <<>> /\ squad = <<>>
    /\ chat = [chats |-> <<>>, activities |-> <<>>,
               call |-> [user |-> 0, chat_id |-> 0, title |-> None,
                         status |-> 0, chats |-> <<>>, activities |-> <<>>]]

\* a create request has been answered; call keeps the tables before it
CreateChat ==
    \E user \in 0..MaxUsers, chat_id \in (-MaxChats)..0,
       title \in {None, "", "Team", "Club"} :
        LET out == ChatCreateView_post(chat.chats, chat.activities, user,
                                       chat_id, title)
        IN  /\ chat' = [chats |-> out.chats, activities |-> out.activities,
                        call |-> [user |-> user, chat_id |-> chat_id,
                                  title |-> title, status |-> out.status,
                                  chats |-> chat.chats,
                                  activities |-> chat.activities]]
            /\ UNCHANGED <<ledgerVars, concVars, equivVars, authVars,
                           registryVars, evm_chains, feed, poll, squad>>

NextChat == CreateChat

SpecChat == InitChat /\ [][NextChat]_vars

\* ----------------------------------------- the wallet registration endpoint
\* s repeated n times
RECURSIVE Times(_, _)
Times(s, n) == IF n = 0 THEN "" ELSE s \o Times(s, n - 1)

\* addresses as requests carry them: 0x and n digits, then what follows them
Address(digit, n, rest) == "0x" \o Times(digit, n) \o rest

\* the admin site saves an EVMChain row
AdminSaveChain(rows) ==
    \E c \in rows :
        /\ evm_chains' = {x \in evm_chains : x.name # c.name} \cup {c}
        /\ tier' = <<>> /\ reg' = <<>> /\ bind' = <<>>
        /\ UNCHANGED <<users, now, bearer, cache, lastReq, job, ledgerVars,
                       concVars, equivVars, feed, poll, squad, chat>>

RegisterAddress(tokens, names, addresses) ==
    \E header \in tokens, chain \in names, address \in addresses,
       varchar \in BOOLEAN :
        LET ans == EVMWalletRegistrationView_post(users, cache, evm_chains,
                       header, 0, now, chain, address, varchar)
        IN  /\ users' = ans.users
            /\ bind' = [view |-> "register",
                        user |-> IF ans.status = 401 THEN 0 ELSE header,
                        chain |-> chain, address |-> address,
                        status |-> ans.status, message |-> ans.message,
                        pre |-> users]
            /\ tier' = <<>> /\ reg' = <<>>
            /\ UNCHANGED <<now, bearer, cache, lastReq, job, ledgerVars, concVars,
                           equivVars, appVars>>

\* two superusers binding addresses through both endpoints while Ethereum and
\* Base are active chains
NextBind ==
    \/ CreateSuperuserOf({1, 2})
    \/ AdminSaveChain({[name |-> "Ethereum", is_active |-> TRUE],
                       [name |-> "Base", is_active |-> TRUE]})
    \/ AddAddress(1..2, {"ethereum", "base"},
                  {Address("A", AddressHexDigits, ""),
                   Address("b", AddressHexDigits, "")})
    \/ RegisterAddress(1..2, {"ethereum", "BASE"},
                       {Address("A", AddressHexDigits, ""),
                        Address("b", AddressHexDigits, "")})

SpecBind == InitAuth /\ [][NextBind]_vars

\* two superusers registering addresses, well formed and not, while the
\* admin activates and deactivates Ethereum and activates Polygon
NextWallet ==
    \/ CreateSuperuserOf({1, 2})
    \/ AdminSaveChain({[name |-> "Ethereum", is_active |-> TRUE],
                       [name |-> "Ethereum", is_active |-> FALSE],
                       [name |-> "Polygon", is_active |-> TRUE]})
    \/ RegisterAddress(0..2, {None, "ethereum", "polygon"},
                       {None,
                        Address("A", AddressHexDigits, ""),
                        Address("b", AddressHexDigits, ""),
                        Address("A", AddressHexDigits - 1, ""),
                        Address("A", AddressHexDigits, "\n")})

SpecWallet == InitAuth /\ [][NextWallet]_vars

\* ========================================================= ledger claims
Available(r) == r.balance - r.frozen_balance
OnTokenBalance(method) == cls = "TokenBalance" /\ last.method = method

\* C1: a TokenBalance that starts at balance 0, frozen 0 keeps balance >= 0,
\* frozen_balance >= 0 and frozen_balance <= balance after any sequence of
\* deposit, withdraw, freeze and unfreeze calls made one at a time, whether
\* the calls succeed or fail.
C1_AvailableNeverNegative ==
    cls = "TokenBalance" =>
        /\ rec.balance >= 0
        /\ rec.frozen_balance >= 0
        /\ rec.frozen_balance <= rec.balance

\* a withdraw was refused on a record that has frozen funds and available funds
C1_Witness ==
    /\ OnTokenBalance("withdraw")
    /\ last.result = "Insufficient balance"
    /\ prev.method = "freeze" /\ prev.result = "ok"
    /\ rec.frozen_balance > 0
    /\ rec.balance > rec.frozen_balance

\* C3: withdraw(amount) fails with the invalid-amount error when amount <= 0,
\* else with the insufficient-balance error when amount > balance - frozen,
\* else succeeds and lowers balance by exactly amount; frozen_balance never
\* changes and a failure leaves balance unchanged.
C3_Withdraw ==
    OnTokenBalance("withdraw") =>
        /\ rec.frozen_balance = last.pre.frozen_balance
        /\ IF last.amount <= 0
           THEN last.result = "Withdraw amount must be positive" /\ rec = last.pre
           ELSE IF last.amount > Available(last.pre)
           THEN last.result = "Insufficient balance" /\ rec = last.pre
           ELSE last.result = "ok" /\ rec.balance = last.pre.balance - last.amount

\* a withdraw of exactly the available amount, with funds frozen, succeeded
\* after a withdraw that the raw balance would have covered was refused
C3_Witness ==
    /\ OnTokenBalance("withdraw")
    /\ last.pre.frozen_balance > 0
    /\ last.amount = Available(last.pre)
    /\ last.result = "ok"
    /\ prev.method = "withdraw"
    /\ prev.amount <= prev.pre.balance
    /\ prev.result = "Insufficient balance"

\* C4: freeze(amount) fails with the invalid-amount error when amount <= 0,
\* else with the insufficient-available error when amount > balance - frozen,
\* else raises frozen_balance by exactly amount; balance never changes and a
\* failure leaves frozen_balance unchanged.
C4_Freeze ==
    OnTokenBalance("freeze") =>
        /\ rec.balance = last.pre.balance
        /\ IF last.amount <= 0
           THEN last.result = "Freeze amount must be positive" /\ rec = last.pre
           ELSE IF last.amount > Available(last.pre)
           THEN last.result = "Insufficient available balance" /\ rec = last.pre
           ELSE /\ last.result = "ok"
                /\ rec.frozen_balance = last.pre.frozen_balance + last.amount

\* a second freeze that the balance would cover is refused
C4_Witness ==
    /\ OnTokenBalance("freeze")
    /\ last.pre.frozen_balance > 0
    /\ last.amount <= last.pre.balance
    /\ last.result = "Insufficient available balance"

\* C5: unfreeze(amount) fails with the invalid-amount error when amount <= 0,
\* else with the insufficient-frozen error when amount > frozen_balance (which
\* keeps its value), else lowers frozen_balance by exactly amount; balance
\* never changes, so freeze(a) then unfreeze(a) restores the record.
C5_Unfreeze ==
    OnTokenBalance("unfreeze") =>
        /\ rec.balance = last.pre.balance
        /\ IF last.amount <= 0
           THEN last.result = "Unfreeze amount must be positive" /\ rec = last.pre
           ELSE IF last.amount > last.pre.frozen_balance
           THEN last.result = "Insufficient frozen balance" /\ rec = last.pre
           ELSE /\ last.result = "ok"
                /\ rec.frozen_balance = last.pre.frozen_balance - last.amount
        /\ (prev.method = "freeze" /\ prev.result = "ok"
              /\ prev.amount = last.amount)
             => (last.result = "ok" /\ rec = prev.pre)

\* a freeze on top of frozen funds was undone by an unfreeze of the same
\* amount, after an unfreeze of more than was frozen had been refused
C5_Witness ==
    /\ OnTokenBalance("unfreeze")
    /\ prev.method = "freeze" /\ prev.result = "ok"
    /\ prev.amount = last.amount
    /\ prev.pre.frozen_balance > 0
    /\ rec = prev.pre

\* an unfreeze of more than is frozen, but no more than the balance, is refused
C5_Refused ==
    /\ OnTokenBalance("unfreeze")
    /\ last.pre.frozen_balance > 0
    /\ last.amount > last.pre.frozen_balance
    /\ last.amount <= last.pre.balance
    /\ last.result = "Insufficient frozen balance"

\* C6: deposit(amount) fails with the invalid-amount error when amount <= 0
\* and then changes nothing; otherwise balance rises by exactly amount and
\* every other field is unchanged; for all three classes.
C6_Deposit ==
    last.method = "deposit" =>
        IF last.amount <= 0
        THEN last.result = "Deposit amount must be positive" /\ rec = last.pre
        ELSE /\ last.result = "ok"
             /\ rec = [last.pre EXCEPT !.balance = @ + last.amount]

\* a deposit of zero on a SquadMemberBalance that holds funds was refused
C6_Witness ==
    /\ cls = "SquadMemberBalance" /\ last.method = "deposit"
    /\ last.amount = 0
    /\ last.result = "Deposit amount must be positive"
    /\ rec.balance > 0

\* a deposit on a TokenBalance with frozen funds succeeded
C6_TokenDeposit ==
    /\ OnTokenBalance("deposit")
    /\ last.result = "ok"
    /\ last.pre.frozen_balance > 0

\* C7: can_drop(amount) is true exactly when drop_enabled holds,
\* min_drop_amount <= amount <= max_drop_amount and
\* amount <= balance - frozen_balance; it changes no field of the record.
C7_CanDrop ==
    last.method = "can_drop" =>
        /\ rec = last.pre
        /\ last.result = (/\ last.pre.drop_enabled
                          /\ last.pre.min_drop_amount <= last.amount
                          /\ last.amount <= last.pre.max_drop_amount
                          /\ last.amount <= Available(last.pre))

\* an enabled drop inside the bounds and the balance is refused for the
\* frozen part, after an eligible drop was accepted
C7_Witness ==
    /\ last.method = "can_drop"
    /\ last.pre.drop_enabled
    /\ last.pre.min_drop_amount <= last.amount
    /\ last.amount <= last.pre.max_drop_amount
    /\ last.amount <= last.pre.balance
    /\ last.result = FALSE
    /\ prev.method = "can_drop" /\ prev.result = TRUE

\* C2: two withdraw calls on one record whose load, check and save interleave
\* never overdraw it: once both have returned, the balance is the initial
\* balance minus the withdrawals that reported success, and it is not below
\* frozen_balance.
RECURSIVE Withdrawn(_)
Withdrawn(S) ==
    IF S = {} THEN 0
    ELSE LET p == CHOOSE q \in S : TRUE IN
             (IF res[p] = "ok" THEN amt[p] ELSE 0) + Withdrawn(S \ {p})

AllReturned == \A p \in Requests : pc[p] = "done"

C2_NoOverdraw ==
    AllReturned =>
        /\ row.balance = row0.balance - Withdrawn(Requests)
        /\ cls # "SquadMemberBalance" => row.balance >= row.frozen_balance

\* C8: on every sequence of deposit and withdraw calls from zero,
\* SquadTokenBalance and SquadMemberBalance report the same outcome at every
\* step and hold the same balance as TokenBalance, whose frozen_balance
\* stays 0.
C8_SameLedger ==
    /\ trioRes.stb = trioRes.tb
    /\ trioRes.smb = trioRes.tb
    /\ trio.stb.balance = trio.tb.balance
    /\ trio.smb.balance = trio.tb.balance
    /\ trio.tb.frozen_balance = 0
    /\ trio.stb.frozen_balance = 0

\* a withdraw of the whole balance succeeded on all three
C8_Witness ==
    /\ trioRes.method = "withdraw"
    /\ trioRes.amount = trioRes.pre
    /\ trioRes.pre > 0
    /\ trioRes.smb = "ok"
    /\ trio.smb.balance = 0

\* ================================================== authentication claims
\* the logins alone, for one identity, while the clock passes the expiry
NextFresh ==
    \/ WidgetLogin({0, 1}, {None}, Anonymous)
    \/ WebAppLogin({0, 1}, {None}, Anonymous, {<<>>})
    \/ Tick

SpecFresh == InitAuth /\ [][NextFresh]_vars

IsLogin == lastReq.view \in {"widget", "webapp"}

\* the answers of a login that failed the hash check or the freshness check
Rejections ==
    {"Invalid data", "Invalid authentication data", "Authentication date expired"}

\* the answers of a login that passed both checks and carried no user id
NoIdentity == {"The Telegram ID must be set", "Missing user parameters"}

\* C9: a token for a user is issued only by a widget or Mini-App login whose
\* hash is genuine and fresh for that user's identity, or by the registration
\* endpoint for a caller who passed the Full-permissions check; no request
\* that passed none of these obtains a token.
C9_TokenOnlyAfterVerification ==
    lastReq.token # 0 =>
        \/ /\ IsLogin
           /\ lastReq.hashOk
           /\ lastReq.age <= AuthMaxAge * TicksPerSecond
           /\ lastReq.own
        \/ lastReq.view = "register" /\ lastReq.callerFull

\* C10: a login payload whose hash is genuine passes the freshness check when
\* now - auth_date <= 86400 s (86400 s exactly included) and is rejected when
\* now - auth_date >= 86401 s, in the widget login and in the Mini-App login.
C10_FreshnessBoundary ==
    (IsLogin /\ lastReq.hashOk) =>
        /\ lastReq.age <= AuthMaxAge * TicksPerSecond =>
             /\ lastReq.message \notin Rejections
             /\ \/ lastReq.token # 0 /\ lastReq.own
                \/ lastReq.message \in NoIdentity
        /\ lastReq.age >= (AuthMaxAge + 1) * TicksPerSecond =>
             /\ lastReq.status = 400
             /\ lastReq.message =
                  (IF lastReq.view = "widget" THEN "Invalid data"
                   ELSE "Authentication date expired")
             /\ lastReq.token = 0

\* a widget login exactly 86400 s after its auth_date was given a token
C10_Witness ==
    /\ lastReq.view = "widget"
    /\ lastReq.hashOk
    /\ lastReq.age = AuthMaxAge * TicksPerSecond
    /\ lastReq.token # 0
    /\ lastReq.status = 302

\* a Mini-App login 86401 s after its auth_date was rejected, after an
\* earlier login had been accepted
C10_Expired ==
    /\ lastReq.view = "webapp"
    /\ lastReq.hashOk
    /\ lastReq.age = (AuthMaxAge + 1) * TicksPerSecond
    /\ lastReq.message = "Authentication date expired"
    /\ bearer # {}

\* ======================================================= tier check claims
\* the flag a tier check tests
TierFlag(class, user) ==
    CASE class = "FullPermissions" -> user.full_permissions_api
      [] class = "Admin" -> user.is_staff
      [] class = "Beta" -> user.has_beta_access
      [] OTHER -> user.has_alpha_access

\* the token names a user who would pass the check's tier
Entitled(token) ==
    /\ token \in Pks(tier.pre)
    /\ tier.pre[token].is_active
    /\ TierFlag(tier.class, tier.pre[token])

\* C11: in each of the four tier checks the token is taken from the
\* Authorization header when it carries one, otherwise from the jwt_token
\* cookie; the check fails with 'no token' only when neither is present, and a
\* request with no header but a valid cookie is resolved to the cookie's user.
C11_HeaderThenCookie ==
    tier # <<>> =>
        /\ tier.result = "No token provided" =>
             (tier.header = 0 /\ tier.cookie = 0)
        /\ (tier.header = 0 /\ Entitled(tier.cookie)) =>
             (tier.result = "ok" /\ tier.user = tier.cookie)

\* C12: a tier check authenticates a request only if the token is valid, names
\* a known user and that user's tier flag is true at the time of the check;
\* whenever the flag is false the check fails, whatever other flags are held.
C12_TierFlagRequired ==
    tier # <<>> =>
        LET token == IF tier.header # 0 THEN tier.header ELSE tier.cookie IN
        /\ tier.result = "ok" =>
             /\ tier.user = token
             /\ token \in Pks(tier.pre)
             /\ TierFlag(tier.class, tier.pre[token])
        /\ (token \in Pks(tier.pre) /\ ~TierFlag(tier.class, tier.pre[token])) =>
             (tier.result # "ok" /\ tier.user = 0)

\* the Alpha check refused an active user who holds every flag but
\* has_alpha_access
C12_Witness ==
    /\ tier # <<>>
    /\ tier.class = "Alpha"
    /\ tier.result = "User does not have access to ALPHA"
    /\ tier.header \in Pks(tier.pre)
    /\ LET u == tier.pre[tier.header] IN
         /\ u.is_active /\ u.is_staff /\ u.is_superuser
         /\ u.full_permissions_api /\ u.has_beta_access

\* C13: the Full-permissions and Admin checks never modify a user field; the
\* Beta and Alpha checks set last_login to the current time exactly when the
\* check passes and change nothing when it fails.
C13_TierSideEffects ==
    tier # <<>> =>
        IF tier.class \in {"Beta", "Alpha"} /\ tier.result = "ok"
        THEN users = [tier.pre EXCEPT ![tier.user].last_login = now]
        ELSE users = tier.pre

\* a Beta check passed on a cookie and moved last_login forward, after an
\* earlier check had set it
C13_Witness ==
    /\ tier # <<>>
    /\ tier.class = "Beta"
    /\ tier.result = "ok"
    /\ tier.header = 0
    /\ tier.pre[tier.user].last_login # 0
    /\ tier.pre[tier.user].last_login < now
    /\ users[tier.user].last_login = now

\* a Beta check failed for a false flag on a user who had logged in before
C13_Refused ==
    /\ tier # <<>>
    /\ tier.class = "Beta"
    /\ tier.result = "User does not have access to BETA"
    /\ tier.header \in Pks(users)
    /\ users[tier.header].last_login # 0

\* ========================================================= registry claims
\* the users of a table that hold the given Telegram identity
WithTelegramId(us, id) == {i \in Pks(us) : us[i].telegram_id = id}

\* the users of a table that hold the given handle, lower-cased
Holders(us, handle) ==
    {i \in Pks(us) : us[i].username_tg # None /\ Lower(us[i].username_tg) = Lower(handle)}

\* C14: getOrCreate called twice in sequence with the same external id, handle
\* and names returns created = true then created = false, leaves exactly one
\* user with that id, and the second call changes no field of that user.
C14_Idempotent ==
    reg # <<>> =>
        /\ reg.error = None =>
             (reg.created <=> WithTelegramId(reg.pre, reg.telegram_id) = {})
        /\ (reg.again /\ reg.first) =>
             /\ reg.error = None
             /\ ~reg.created
             /\ WithTelegramId(users, reg.telegram_id) = {reg.user}
             /\ users[reg.user] = reg.pre[reg.user]

\* a login that created a user with names and a mixed-case handle, taken from
\* another user, was repeated
C14_Witness ==
    /\ reg # <<>>
    /\ reg.again /\ reg.first
    /\ reg.username_tg = "Bob"
    /\ reg.first_name # None
    /\ ~reg.created
    /\ Len(users) = 2
    /\ users[reg.user].username_tg = "bob"

\* C15: after any sequence of getOrCreate calls made one at a time no two
\* users hold the same lower-cased handle: a call that supplies a handle held
\* by a user with another external id succeeds, that user's handle becomes
\* absent and the caller holds the handle.
C15_HandleUnique ==
    /\ \A i \in Pks(users), j \in Pks(users) :
         (i # j /\ users[i].username_tg # None) =>
             Lower(users[i].username_tg) # Lower(users[j].username_tg)
    /\ reg # <<>> =>
         \A holder \in Holders(reg.pre, reg.username_tg) :
            (reg.username_tg # None /\ reg.pre[holder].telegram_id # reg.telegram_id) =>
                /\ reg.error = None
                /\ users[holder].username_tg = None
                /\ users[reg.user].telegram_id = reg.telegram_id
                /\ users[reg.user].username_tg = Lower(reg.username_tg)

\* an existing user took over, in another case, the handle another user held
C15_Witness ==
    /\ reg # <<>>
    /\ reg.username_tg = "Bob"
    /\ ~reg.created
    /\ \E holder \in Pks(reg.pre) :
         /\ reg.pre[holder].username_tg = "bob"
         /\ reg.pre[holder].telegram_id # reg.telegram_id
         /\ users[holder].username_tg = None
    /\ users[reg.user].username_tg = "bob"

\* C17: registering a new user with a referredByInternalId that matches no
\* user is not an error: the user is created with no referrer and 'no
\* referrer' is reported, with or without a handle, on every registration
\* path that runs the bot-detection step.
C17_UnknownReferrerIgnored ==
    (/\ reg # <<>>
     /\ reg.op = "webapp"
     /\ WithTelegramId(reg.pre, reg.telegram_id) = {}
     /\ reg.referred_by_id # 0
     /\ reg.referred_by_id \notin Pks(reg.pre)) =>
        /\ reg.error = None
        /\ reg.created
        /\ users[reg.user].telegram_id = reg.telegram_id
        /\ users[reg.user].referred_by = 0
        /\ reg.reported = 0

\* C19: in a Mini-App login that creates a user, a start_param ref_<N> makes
\* the existing user whose Telegram identity is N the referrer; an absent
\* start_param, or one not starting with ref_, creates it with no referrer.
C19_ReferrerByTelegramId ==
    (reg # <<>> /\ reg.op = "webapp" /\ reg.created) =>
        IF StartsWithRef(reg.start_param)
        THEN \A r \in WithTelegramId(reg.pre, reg.referred_by_id) :
                users[reg.user].referred_by = r
        ELSE users[reg.user].referred_by = 0

\* the users of a table that referrer r referred and that have no handle
HandlelessReferrals(us, r) ==
    {i \in Pks(us) : us[i].referred_by = r /\ us[i].username_tg = None}

C16_LastWriteWins ==
    (\A p \in Requests : job[p].pc = "done") =>
        Cardinality(Holders(users, "bob")) <= 1

\* ================================================== address binding claims
\* the column that holds a user's address for a chain
AddressField(chain) ==
    IF chain = "ethereum" THEN "ethereum_address" ELSE "base_address"

\* C20: addChainAddress never overwrites: when the user already has an address
\* bound for the chain, the add-address endpoint reports failure and the
\* stored address keeps its old value; only a user with no address for that
\* chain has one bound.
C20_NoOverwrite ==
    (/\ bind # <<>>
     /\ bind.user # 0
     /\ bind.chain \in {"ethereum", "base"}
     /\ bind.address # None) =>
        LET old == bind.pre[bind.user][AddressField(bind.chain)]
            new == users[bind.user][AddressField(bind.chain)]
        IN  /\ old # None => (bind.status # 200 /\ new = old)
            /\ new # old => old = None

\* the address a user has stored for the chain a request names, None when
\* it has none
StoredAddress(user, chain) ==
    LET stored == User_get_evm_addresses(user) IN
    IF Lower(chain) \in DOMAIN stored THEN stored[Lower(chain)] ELSE None

\* the addresses of every user of a table
Addresses(us) ==
    [i \in Pks(us) |-> <<us[i].ethereum_address, us[i].base_address>>]

\* the users other than the caller that hold the requested address on the
\* requested chain before the request
OtherHolders ==
    {i \in Pks(bind.pre) \ {bind.user} :
        StoredAddress(bind.pre[i], bind.chain) = bind.address}

\* C21: after any sequence of addChainAddress and registerAddress calls no two
\* users have the same ethereum_address and no two the same base_address; a
\* call that would bind an address already bound to another user on that
\* chain fails and changes no user's addresses.
C21_AddressUnique ==
    /\ \A i \in Pks(users), j \in Pks(users) :
         i # j =>
            /\ users[i].ethereum_address # None =>
                  users[i].ethereum_address # users[j].ethereum_address
            /\ users[i].base_address # None =>
                  users[i].base_address # users[j].base_address
    /\ (/\ bind # <<>>
        /\ bind.user # 0
        /\ bind.address # None
        /\ OtherHolders # {}) =>
            /\ bind.status # 200
            /\ Addresses(users) = Addresses(bind.pre)

\* a user with a Base address of its own asked the registration endpoint for
\* the Base address of the other user and was refused
C21_Witness ==
    /\ bind # <<>>
    /\ bind.view = "register"
    /\ bind.user # 0
    /\ Lower(bind.chain) = "base"
    /\ OtherHolders # {}
    /\ bind.pre[bind.user].base_address \notin {None, bind.address}
    /\ bind.message = "This address is already registered to another user"

\* an address is exactly 0x followed by 40 hexadecimal digits
WellFormed(address) ==
    /\ Len(address) = 2 + AddressHexDigits
    /\ SubSeq(address, 1, 2) = "0x"
    /\ \A i \in 3..Len(address) : SubSeq(address, i, i) \in HexDigits

\* the answer the first failing check of registerAddress gives, None when
\* every check passes
FirstFailure ==
    IF bind.chain = None \/ bind.address = None
    THEN "Chain and address are required"
    ELSE IF EVMChain_get(evm_chains, bind.chain) = {}
    THEN "Invalid or inactive chain"
    ELSE IF ~WellFormed(bind.address)
    THEN "Invalid EVM address format"
    ELSE IF OtherHolders # {}
    THEN "This address is already registered to another user"
    ELSE None

\* C22: registerAddress reports the first check that fails, in the order
\* chain or address absent, no active chain of that name (case-insensitive),
\* address not exactly 0x and 40 hexadecimal characters, address bound to
\* another user on that chain; on every failure the user's stored addresses
\* are unchanged.
C22_CheckOrder ==
    (bind # <<>> /\ bind.view = "register" /\ bind.user # 0) =>
        /\ FirstFailure # None =>
              (bind.status = 400 /\ bind.message = FirstFailure)
        /\ bind.status # 200 => Addresses(users) = Addresses(bind.pre)

\* C23: when registerAddress reports success the user's stored address for
\* the named chain equals the submitted address, for a first address and for
\* a replaced one, on every active chain the chain-name check accepts.
C23_SuccessBinds ==
    (bind # <<>> /\ bind.view = "register" /\ bind.status = 200) =>
        StoredAddress(users[bind.user], bind.chain) = bind.address

\* =================================================== new-user buffer claims
\* the users the entries of a buffer name, in order
Ids(entries) == [i \in 1..Len(entries) |-> entries[i].id]

\* C24: with requests handled one at a time, a Mini-App login appends exactly
\* one entry to the new-user buffer if and only if it created the user, and
\* appends nothing for an existing user; a drain returns every entry appended
\* since the previous drain, in append order, and leaves the buffer empty, so
\* a drain repeated at once returns an empty list.
C24_BufferSequential ==
    /\ (feed.op = "webapp" /\ reg # <<>>) =>
         IF reg.created
         THEN /\ Len(cache) = Len(feed.pre) + 1
              /\ SubSeq(cache, 1, Len(feed.pre)) = feed.pre
              /\ cache[Len(cache)].id = reg.user
              /\ cache[Len(cache)].telegram_id = reg.telegram_id
         ELSE cache = feed.pre
    /\ (feed.op = "drain" /\ feed.status = 200) =>
         /\ Ids(feed.returned) = feed.due
         /\ cache = <<>>
         /\ feed.again => feed.returned = <<>>

\* a drain returned two new users in the order of their logins
C24_Witness ==
    /\ feed.op = "drain"
    /\ feed.status = 200
    /\ Len(feed.returned) = 2
    /\ feed.returned[1].id < feed.returned[2].id
    /\ cache = <<>>

\* a drain that followed a drain at once returned nothing
C24_Repeated ==
    /\ feed.op = "drain"
    /\ feed.status = 200
    /\ feed.again
    /\ feed.returned = <<>>
    /\ Len(users) > 1

\* the users named by the list a finished drain request returned
Delivered(p) ==
    IF poll.drain[p].pc = "done"
    THEN {poll.drain[p].new_users[i].id : i \in 1..Len(poll.drain[p].new_users)}
    ELSE {}

\* C25: under any interleaving of the read and write steps of first-time
\* Mini-App logins and of drain requests, no entry recorded for a new user is
\* returned by more than one drain request.
C25_AtMostOnce ==
    \A p \in Requests, q \in Requests :
        p # q => Delivered(p) \cap Delivered(q) = {}

\* ============================================================ squad claims
\* the users in the member rows of the squad
Members == {squad.self.members[i] : i \in 1..Len(squad.self.members)}

\* C26: after any sequence of add_member and remove_member calls the owner is
\* not in the member set (add_member(owner) and remove_member(owner) fail
\* and change nothing), no user is in the member set twice, is_member(owner)
\* is true and get_member_count() is the size of the member set plus 1.
C26_OwnerApart ==
    /\ squad.self.owner \notin Members
    /\ \A i \in 1..Len(squad.self.members), j \in 1..Len(squad.self.members) :
         i # j => squad.self.members[i] # squad.self.members[j]
    /\ Squad_is_member(squad.self, squad.self.owner)
    /\ Squad_get_member_count(squad.self) = Cardinality(Members) + 1
    /\ (squad.call.method # None /\ squad.call.user = squad.self.owner) =>
         /\ squad.call.error # None
         /\ squad.self.members = squad.call.pre

\* add_member(owner) was refused for being the owner, in a squad with a
\* member and room for another
C26_Witness ==
    /\ squad.call.method = "add_member"
    /\ squad.call.user = squad.self.owner
    /\ squad.call.error = "Owner cannot be added as a member"
    /\ Len(squad.self.members) = 1

\* ============================================================= chat claims
\* the last create request was made by an authenticated caller, with a
\* chat_id and a title, for a chat_id no chat had
Acceptable ==
    /\ chat.call.user # 0
    /\ chat.call.chat_id # 0
    /\ chat.call.title \notin {None, ""}
    /\ \A i \in 1..Len(chat.call.chats) :
         chat.call.chats[i].chat_id # chat.call.chat_id

\* C27: a chat-create request changes state only when the caller is
\* authenticated, chat_id and title are present and no chat has that chat_id;
\* it then adds exactly one chat and one 'chat_created' activity and answers
\* 201. Any other request is rejected and adds neither, so no two chats share
\* a chat_id.
C27_ChatCreate ==
    /\ chat.call.status # 0 =>
         IF Acceptable
         THEN /\ chat.call.status = 201
              /\ chat.chats = Append(chat.call.chats,
                                     [chat_id |-> chat.call.chat_id,
                                      title |-> chat.call.title])
              /\ Len(chat.activities) = Len(chat.call.activities) + 1
              /\ SubSeq(chat.activities, 1, Len(chat.call.activities)) =
                    chat.call.activities
              /\ chat.activities[Len(chat.activities)] =
                    [chat |-> Len(chat.chats), user |-> chat.call.user,
                     activity_type |-> "chat_created"]
         ELSE /\ chat.call.status \in {400, 401}
              /\ chat.chats = chat.call.chats
              /\ chat.activities = chat.call.activities
    /\ \A i \in 1..Len(chat.chats), j \in 1..Len(chat.chats) :
         i # j => chat.chats[i].chat_id # chat.chats[j].chat_id

\* an authenticated request for a chat_id in use was rejected after another
\* chat had been created
C27_Witness ==
    /\ chat.call.status = 400
    /\ chat.call.user # 0
    /\ chat.call.title = "Club"
    /\ Len(chat.chats) = 2
    /\ chat.chats[1].chat_id = chat.call.chat_id

\* ====================================================== login order claims
\* the last step was a login that failed the hash check or the freshness
\* check
Unverified ==
    /\ reg # <<>>
    /\ IsLogin
    /\ ~lastReq.hashOk \/ lastReq.age > AuthMaxAge * TicksPerSecond

\* C28: both logins check the hash, then the freshness, then call the
\* registry, then issue the token, and the Mini-App login then appends to the
\* new-user buffer: a login that fails the hash check or the freshness check
\* creates no user, updates no handle or name, clears no other user's handle,
\* issues no token and appends nothing to the buffer.
C28_ChecksFirst ==
    /\ Unverified =>
         /\ users = reg.pre
         /\ cache = feed.pre
         /\ lastReq.token = 0
         /\ lastReq.status = 400
         /\ lastReq.view = "webapp" =>
               lastReq.message = (IF lastReq.hashOk
                                  THEN "Authentication date expired"
                                  ELSE "Invalid authentication data")
    /\ (reg # <<>> /\ IsLogin) =>
         /\ lastReq.token # 0 =>
               /\ lastReq.token \in Pks(users)
               /\ users[lastReq.token].telegram_id = reg.telegram_id
         /\ cache # feed.pre => (lastReq.view = "webapp" /\ lastReq.token # 0)

\* a Mini-App login with a genuine hash and an expired auth_date asked for
\* the handle another user holds, with names, and changed nothing
C28_Witness ==
    /\ Unverified
    /\ lastReq.view = "webapp"
    /\ lastReq.hashOk
    /\ reg.username_tg = "Bob"
    /\ reg.first_name # None
    /\ WithTelegramId(reg.pre, reg.telegram_id) = {}
    /\ \E holder \in Pks(users) :
         /\ users[holder].username_tg = "bob"
         /\ users[holder].telegram_id # reg.telegram_id

\* ======================================================= referrer claims
\* C29: a user's referrer is fixed at creation: no later getOrCreate call for
\* an existing user's external id, with a referredByInternalId that is
\* absent, the same or another existing user, changes that user's
\* referred_by; only the call that creates a user sets it.
C29_ReferrerFixed ==
    reg # <<>> =>
        /\ \A i \in Pks(reg.pre) : users[i].referred_by = reg.pre[i].referred_by
        /\ \A i \in Pks(users) \ Pks(reg.pre) :
             /\ reg.created /\ i = reg.user
             /\ users[i].referred_by \in {0, reg.referred_by_id}

\* a user without a referrer signed in again through a ref_ link that names
\* an existing user
C29_Witness ==
    /\ reg # <<>>
    /\ reg.op = "webapp"
    /\ reg.error = None
    /\ ~reg.created
    /\ reg.referred_by_id \in Pks(reg.pre) \ {reg.user}
    /\ reg.pre[reg.user].referred_by = 0
    /\ users[reg.user].referred_by = 0

\* a referred user signed in again with no ref_ link
C29_Absent ==
    /\ reg # <<>>
    /\ reg.error = None
    /\ ~reg.created
    /\ reg.referred_by_id = 0
    /\ users[reg.user].referred_by # 0

\* C30: a registration that fails leaves the registry unchanged: when
\* getOrCreate is called with an absent or zero external id, or a step of
\* register_user_func_params raises, the call reports an error and no user
\* has been created, no handle or name updated and no other user's handle
\* cleared.
C30_FailureChangesNothing ==
    reg # <<>> =>
        /\ reg.telegram_id = 0 => reg.error # None
        /\ reg.error # None =>
             /\ reg.status \in {400, 500}
             /\ reg.user = 0
             /\ ~reg.created
             /\ users = reg.pre

\* detect_bot raised for a new user without a handle whose ref_ link names no
\* user, after create_user had inserted it: the user is gone again
C30_Witness ==
    /\ reg # <<>>
    /\ reg.op = "webapp"
    /\ reg.error # None
    /\ reg.telegram_id # 0
    /\ reg.username_tg = None
    /\ reg.referred_by_id \notin Pks(reg.pre) \cup {0}
    /\ WithTelegramId(users, reg.telegram_id) = {}
    /\ Len(users) = 1

\* a widget login without an id asked for the handle a user holds, with
\* names, and was refused
C30_NoIdentity ==
    /\ reg # <<>>
    /\ reg.op = "widget"
    /\ reg.telegram_id = 0
    /\ reg.error = "The Telegram ID must be set"
    /\ reg.first_name # None
    /\ Holders(users, "Bob") # {}
    /\ reg.username_tg = "Bob"

====
